----------------------------- MODULE UploadForm -----------------------------
(***************************************************************************)
(* What the upload handler makes of its form: max_downloads and ttl of the *)
(* new file, or the refusal.  A duration is a sequence of numbers with a   *)
(* unit, as in 2h30m.                                                      *)
(***************************************************************************)
EXTENDS Integers, Sequences, SequencesExt

CONSTANTS
    Number,           \* numbers a client may write
    Unit,             \* units a client may write
    UnitLength,       \* [Unit -> its length in minutes]
    DefaultDownloads, DefaultTtl,
    MaxDownloads,     \* 10000
    Int16Max,
    MaxParts          \* bound on the parts of a duration

ASSUME FormAssumption ==
    /\ Number \subseteq Int
    /\ UnitLength \in [Unit -> Nat]
    /\ DefaultDownloads \in Int
    /\ DefaultTtl \in Int
    /\ MaxDownloads \in Nat
    /\ Int16Max \in Nat
    /\ MaxParts \in Nat

VARIABLES form, request

formVars == <<form, request>>

(* A text field is missing, a number, or something else. *)
Text == [kind : {"missing", "word"}, n : {0}] \union [kind : {"number"}, n : Number]

(* A duration without a sign; the empty one is a field that is missing. *)
Duration == SeqOf([n : Number \intersect Nat, unit : Unit], MaxParts)

Form == [downloads : Text, ttl : Duration]

Refused(why) == [ok |-> FALSE, why |-> why]

NotParsed == Refused("")

(* Mutant: the number is narrowed before it is compared. *)
ParseDownloadsNarrowed(text) ==
    LET n == text.n % (2 * Int16Max + 2)
        narrow == IF n > Int16Max THEN n - (2 * Int16Max + 2) ELSE n
    IN  IF narrow <= 0 \/ narrow > MaxDownloads THEN Refused("range")
        ELSE [ok |-> TRUE, value |-> narrow]

(* ParseInt with 16 bits. *)
ParseDownloads(text) ==
    IF text.kind = "word" \/ text.n \notin -Int16Max - 1 .. Int16Max
    THEN Refused("number")
    ELSE IF text.n <= 0 \/ text.n > MaxDownloads THEN Refused("range")
    ELSE [ok |-> TRUE, value |-> text.n]

(* time.ParseDuration knows hours and what is shorter. *)
Known == {"h", "m", "s"}

ParseDuration(text) ==
    IF \E i \in DOMAIN text : text[i].unit \notin Known THEN Refused("ttl")
    ELSE [ok |-> TRUE,
          value |-> FoldSeq(LAMBDA part, sum :
                               sum + part.n * UnitLength[part.unit], 0, text)]

OrDefault(missing, parsed, default) ==
    IF missing THEN [ok |-> TRUE, value |-> default] ELSE parsed

GetRequestFromForm(f) ==
    LET downloads == OrDefault(f.downloads.kind = "missing",
                               ParseDownloads(f.downloads), DefaultDownloads)
        ttl == OrDefault(f.ttl = <<>>, ParseDuration(f.ttl), DefaultTtl)
    IN  IF ~downloads.ok THEN downloads
        ELSE IF ~ttl.ok THEN ttl
        ELSE [ok |-> TRUE, downloads |-> downloads.value, ttl |-> ttl.value]

FormInit ==
    /\ form \in Form
    /\ request = NotParsed

Parse ==
    /\ request = NotParsed
    /\ request' = GetRequestFromForm(form)
    /\ UNCHANGED form

-----------------------------------------------------------------------------
(* A file gets exactly the number of downloads its form asks for, and a    *)
(* form that asks for one README.md:83 does not allow is refused: no       *)
(* number is read as another one, however large (upload.go:147).           *)
DownloadsAsWritten ==
    /\ request # NotParsed
    /\ form.downloads.kind = "number"
    => IF form.downloads.n \in 1 .. MaxDownloads
       THEN request.ok => request.downloads = form.downloads.n
       ELSE ~request.ok
=============================================================================
