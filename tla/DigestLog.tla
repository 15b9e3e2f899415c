----------------------------- MODULE DigestLog -----------------------------
(***************************************************************************)
(* What a checksum context promises its caller, with no threads: every     *)
(* checksum_update() appends one buffer to the input of every enabled      *)
(* digest, checksum_final() fixes the digests of the whole input, and a    *)
(* digest is readable only after that.                                     *)
(***************************************************************************)
EXTENDS Integers, Sequences

CONSTANTS Algorithms,  \* the enabled algorithms of the context
          Block,       \* contents the caller may pass
          NoDigest     \* what checksum_hex() gives before checksum_final()

VARIABLES log,   \* buffers passed to checksum_update() calls that returned
          hex    \* hex[a]: what checksum_hex() gives for algorithm a

Init == log = << >> /\ hex = [a \in Algorithms |-> NoDigest]

Update == /\ \A a \in Algorithms : hex[a] = NoDigest
          /\ \E b \in Block : log' = Append(log, b)
          /\ UNCHANGED hex

Final == /\ \A a \in Algorithms : hex[a] = NoDigest
         /\ hex' = [a \in Algorithms |-> log]
         /\ UNCHANGED log

\* checksum_free_context(): nothing can be read any more.
Free == hex' = [a \in Algorithms |-> NoDigest] /\ log' = << >>

Next == Update \/ Final \/ Free

Spec == Init /\ [][Next]_<<log, hex>>
============================================================================
