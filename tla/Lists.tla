------------------------------- MODULE Lists -------------------------------
(***************************************************************************)
(* Parts of sequences, and records put together, for the models that prove *)
(* things about them.                                                      *)
(***************************************************************************)
EXTENDS Integers, Sequences, FiniteSets, SequencesExt

\* s is a sequence, of whatever items.
IsList(s) == Len(s) \in Nat /\ s = [i \in 1 .. Len(s) |-> s[i]]

\* The items of s at the positions in keep.
Kept(s, keep) ==
    LET kept[i \in 0 .. Len(s)] ==
            IF i = 0 THEN <<>> ELSE IF i \in keep THEN Append(kept[i - 1], s[i]) ELSE kept[i - 1]
    IN  kept[Len(s)]

\* The items of s that are of some kind.
Those(s, Is(_)) == Kept(s, {i \in DOMAIN s : Is(s[i])})

\* A record with more fields.
With(r, more) ==
    [field \in DOMAIN r \cup DOMAIN more |-> IF field \in DOMAIN r THEN r[field] ELSE more[field]]
=============================================================================
