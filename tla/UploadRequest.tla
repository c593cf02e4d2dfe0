--------------------------- MODULE UploadRequest ---------------------------
(***************************************************************************)
(* What an upload computes before anything is stored: the terms of the     *)
(* file from the form, and then, for a form that is not refused, its       *)
(* alias.                                                                  *)
(***************************************************************************)
EXTENDS UploadForm, AliasGen

vars == <<formVars, aliasVars>>

Init == FormInit /\ AliasInit

ParseForm == Parse /\ UNCHANGED aliasVars

(* The service is called with a parsed form only. *)
GenAlias ==
    /\ request.ok
    /\ Gen
    /\ UNCHANGED formVars

Finished ==
    /\ request # NotParsed
    /\ ~request.ok \/ Generated
    /\ UNCHANGED vars

Next == ParseForm \/ GenAlias \/ Finished

Spec == Init /\ [][Next]_vars
=============================================================================
