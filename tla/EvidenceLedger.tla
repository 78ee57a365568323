--------------------------- MODULE EvidenceLedger ---------------------------
(***************************************************************************)
(* What the evidence archive promises to whoever reads the bucket and the  *)
(* saved state, without runs, descriptors, retries or crashes: evidence    *)
(* and its attestations are written once and stay, and a log is passed     *)
(* only over bytes that attested evidence covers.                          *)
(***************************************************************************)
EXTENDS Integers

CONSTANTS Logs  \* the logs the archive follows

VARIABLES
  evidence,      \* pieces of a log: which log and generation, and which bytes
  attestations,  \* what is attested, at most once for each piece
  passed         \* generation and offset below which a log is done with

Origin == [generation |-> 0, offset |-> 0]

\* Piece k has byte p of generation g of log i.
Has(k, i, g, p) ==
  k.inode = i /\ k.generation = g /\ k.start < p /\ p <= k.end

Attested(k) == \E a \in attestations : a.key = k

\* Where a log stands never moves back.
Forward(from, to) ==
  \/ to.generation > from.generation
  \/ to.generation = from.generation /\ to.offset >= from.offset

-----------------------------------------------------------------------------

Init ==
  /\ evidence = {}
  /\ attestations = {}
  /\ passed = [i \in Logs |-> Origin]

\* A piece of evidence arrives.
Store ==
  /\ \E k \in evidence' : evidence' = evidence \cup {k}
  /\ UNCHANGED <<attestations, passed>>

\* Evidence that is there and has no attestation is attested.
Attest ==
  /\ \E a \in attestations' :
       /\ a.key \in evidence
       /\ ~Attested(a.key)
       /\ attestations' = attestations \cup {a}
  /\ UNCHANGED <<evidence, passed>>

\* Logs are passed, forward, and only over attested evidence.
Pass ==
  /\ passed' \in [Logs -> [generation : Nat, offset : Nat]]
  /\ \A i \in Logs :
       /\ Forward(passed[i], passed'[i])
       /\ \A p \in 1..passed'[i].offset :
            \E k \in evidence :
              Has(k, i, passed'[i].generation, p) /\ Attested(k)
  /\ UNCHANGED <<evidence, attestations>>

Next == Store \/ Attest \/ Pass

Spec == Init /\ [][Next]_<<evidence, attestations, passed>>

=============================================================================
