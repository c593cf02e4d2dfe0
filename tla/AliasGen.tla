------------------------------ MODULE AliasGen ------------------------------
(***************************************************************************)
(* alias.Gen: letters are drawn LetterIdxBits at a time from random words  *)
(* of WordBits bits; a chunk that is no index of a letter is thrown away,  *)
(* and a word is replaced when the chunks it can give are used up.         *)
(***************************************************************************)
EXTENDS Integers, Sequences

CONSTANTS
    Length,          \* service.alias_length
    WordBits,        \* 63: the bits of rand.Int63
    LetterIdxBits,   \* 6
    Letters,         \* 62: len(letterBytes)
    MaxWords         \* bound on the words drawn

(* The powers of two: 1 << n. *)
Pow2[n \in Nat] == IF n = 0 THEN 1 ELSE 2 * Pow2[n - 1]

ASSUME AliasGenAssumption ==
    /\ Length \in Nat
    /\ WordBits \in Nat \ {0}
    /\ LetterIdxBits \in 1 .. WordBits
    /\ Letters \in 1 .. Pow2[LetterIdxBits]
    /\ MaxWords \in Nat

VARIABLES
    result,    \* the letters written so far, the last position first
    cache,     \* what is left of the word
    remain,    \* chunks still to be taken from it
    words      \* history: the words drawn

aliasVars == <<result, cache, remain, words>>

Word == 0 .. Pow2[WordBits] - 1

Mask == Pow2[LetterIdxBits]

(* Mutant: the bits that are left over count as a chunk. *)
LetterIdxMaxRoundedUp == (WordBits + LetterIdxBits - 1) \div LetterIdxBits

LetterIdxMax == WordBits \div LetterIdxBits

AliasInit ==
    /\ result = <<>>
    /\ cache = 0
    /\ remain = 0
    /\ words = <<>>

(* One random word is drawn before the loop. *)
FirstWord ==
    /\ words = <<>>
    /\ cache' \in Word
    /\ remain' = LetterIdxMax
    /\ words' = <<cache'>>
    /\ UNCHANGED result

(* A round of the loop takes a chunk, of a new word if there is none left. *)
Take(word, left) ==
    LET idx == word % Mask
    IN  /\ result' = IF idx < Letters THEN Append(result, idx) ELSE result
        /\ cache' = word \div Mask
        /\ remain' = left - 1

Round ==
    /\ words # <<>>
    /\ Len(result) < Length
    /\ \/ /\ remain > 0
          /\ Take(cache, remain)
          /\ UNCHANGED words
       \/ /\ remain = 0
          /\ Len(words) < MaxWords
          /\ \E word \in Word :
                /\ Take(word, LetterIdxMax)
                /\ words' = Append(words, word)

Gen == FirstWord \/ Round

(* The alias is returned, or the bound on the words is reached. *)
Generated ==
    /\ words # <<>>
    /\ \/ Len(result) = Length
       \/ remain = 0 /\ Len(words) = MaxWords

-----------------------------------------------------------------------------
(* The reference: a word has as many chunks as fit into it, the last of    *)
(* its bits first, and chunk <<w, i>> is chunk i of the w-th word.         *)
Position == (DOMAIN words) \X (0 .. WordBits \div LetterIdxBits - 1)

Chunk(at) == (words[at[1]] \div Pow2[LetterIdxBits * at[2]]) % Pow2[LetterIdxBits]

Before(p, q) == p[1] < q[1] \/ (p[1] = q[1] /\ p[2] < q[2])

(* Every letter of the alias is made of random bits no other letter uses,  *)
(* none of them of the zeros that are shifted in, and no chunk that is a   *)
(* letter is skipped: otherwise some aliases would be more likely than     *)
(* others, and collisions (ErrAliasTaken, which an upload does not retry)  *)
(* with them.                                                              *)
LettersAreFresh ==
    \E at \in [DOMAIN result -> Position] :
        \A i \in DOMAIN result :
            /\ result[i] = Chunk(at[i]) /\ Chunk(at[i]) < Letters
            /\ \A j \in DOMAIN result : i < j => Before(at[i], at[j])
            /\ \A p \in Position : Chunk(p) < Letters /\ Before(p, at[i])
                    => \E j \in DOMAIN result : at[j] = p
=============================================================================
