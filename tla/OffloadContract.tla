--------------------------- MODULE OffloadContract ---------------------------
(***************************************************************************)
(* What the offload funnel promises whoever hands it a described job       *)
(* (squallar-worker/src/offload.rs): the caller's `deliver` closure carries *)
(* a render slot, a pane's in-flight mark and a reply channel, so a job    *)
(* taken on is settled exactly once and is never silently forgotten.       *)
(*                                                                         *)
(*   open      the caller still has the job                                *)
(*   owed      the funnel holds the job's `deliver`                        *)
(*   answered  `deliver` ran, with a value or with nothing                 *)
(*   returned  the tile lane refused it: the request is the caller's again *)
(*   dropped   `deliver` was dropped unrun by a fallback thread's panic    *)
(***************************************************************************)

CONSTANT Jobs

VARIABLE promise

States == {"open", "owed", "answered", "returned", "dropped"}

Moves == { <<"open", "owed">>, <<"open", "answered">>,
           <<"owed", "answered">>, <<"owed", "returned">>, <<"owed", "dropped">> }

Init == promise = [j \in Jobs |-> "open"]

\* One call may settle several jobs: retiring a sink fails all it still owes.
Next == /\ promise' \in [Jobs -> States]
        /\ \A j \in Jobs : promise'[j] # promise[j] => <<promise[j], promise'[j]>> \in Moves

Settle(j) == /\ promise[j] = "owed"
             /\ Next
             /\ promise'[j] # "owed"

SafeSpec == Init /\ [][Next]_promise

Spec == SafeSpec /\ \A j \in Jobs : WF_promise(Settle(j))

=============================================================================
