-------------------------- MODULE ReferenceArchive --------------------------
(* The life of a subtitle file in the reference cache, as a user who pays    *)
(* for downloads sees it.  A file is paid for only while nothing of it is    *)
(* held, at most once per invocation; a response that has arrived in full is *)
(* never given up for another download; only an eviction makes a published   *)
(* reference go away, and then the whole of it.                              *)
EXTENDS Naturals

CONSTANT Files

VARIABLES held,   \* what the cache holds of each file
          paid    \* downloads paid for in this invocation, per file

Holdings == {"nothing",     \* neither entry nor staging directory
             "fragment",    \* staging without a complete, attested body
             "response",    \* the complete body with a receipt for it
             "reference",   \* published and loadable
             "remnant"}     \* a published entry half removed

Init ==
    /\ held = [f \in Files |-> "nothing"]
    /\ paid = [f \in Files |-> 0]

Become(f, from, to) ==
    /\ held[f] = from
    /\ held' = [held EXCEPT ![f] = to]
    /\ UNCHANGED paid

Invoke == /\ paid' = [f \in Files |-> 0]
          /\ UNCHANGED held

Pay(f) ==
    /\ held[f] = "nothing"
    /\ paid[f] = 0
    /\ paid' = [paid EXCEPT ![f] = 1]
    /\ UNCHANGED held

(* Only what this invocation paid for is staged.                             *)
Receive(f) ==
    /\ paid[f] = 1
    /\ \/ Become(f, "nothing", "fragment")
       \/ Become(f, "fragment", "response")

Publish(f) == Become(f, "response", "reference")

Evict(f) == \/ Become(f, "reference", "remnant")
            \/ Become(f, "remnant", "nothing")

Next == \/ Invoke
        \/ \E f \in Files : Pay(f) \/ Receive(f) \/ Publish(f) \/ Evict(f)

Spec == Init /\ [][Next]_<<held, paid>>
=============================================================================
