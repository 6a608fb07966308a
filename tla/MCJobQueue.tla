------------------------------ MODULE MCJobQueue ------------------------------
(* Instances of JobQueue for TLC. *)
EXTENDS JobQueue

CONSTANTS a1, a2, control, img1, img2, story, ai, c1

\* Worker pools as Manager.Start builds them, restricted to the instance's types.
mcQueues(w) ==
    CASE w = control -> <<"scan_media">>
      [] w \in {img1, img2} -> <<"thumb">>
      [] w = story -> <<"storyboard">>
      [] w = ai -> <<"ai_analyze">>
mcServes == [w \in Worker |-> mcQueues(w)]
mcBlockers(w) ==
    CASE w = story -> {"thumb"}
      [] w = ai -> {"thumb", "storyboard"} \cap TaskType
      [] OTHER -> {}
mcBlockedBy == [w \in Worker |-> mcBlockers(w)]

mcThumb == [type |-> "thumb", subject |-> a1, prio |-> 0]
mcThumb2Now == [type |-> "thumb", subject |-> a2, prio |-> 10]
mcStory == [type |-> "storyboard", subject |-> a1, prio |-> 0]
mcAI == [type |-> "ai_analyze", subject |-> a1, prio |-> 0]

mcSteadyRequests == {mcThumb, mcThumb2Now}
mcSteadyTypes == {"thumb"}
mcSymmetry == Permutations({img1, img2})

mcGateRequests == {mcThumb, mcStory, mcAI}
mcGateTypes == {"thumb", "storyboard", "ai_analyze"}

mcStopAI == {{"ai_analyze"}}
===============================================================================
