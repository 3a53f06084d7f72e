---------------------------- MODULE ClassContract ----------------------------
(***************************************************************************)
(* What an HCloudNodeClass's status promises its readers, without how it   *)
(* comes about.  Each write of the status is a verdict on the spec that is *)
(* current at that moment, never on an earlier one; a verdict of True      *)
(* publishes only references resolved from that spec; and between two      *)
(* verdicts nothing moves but the spec.                                    *)
(***************************************************************************)
EXTENDS Naturals

VARIABLES
  generation,  \* of the spec
  verdict,     \* the Ready condition: its status and the generation it is about
  refs         \* the generations the published references were resolved from

Init == generation = 1 /\ verdict = [st |-> "none", gen |-> 0] /\ refs = {0}

Edit == generation' = generation + 1 /\ UNCHANGED <<verdict, refs>>

Judge ==
  /\ verdict' \in [st : {"Unknown", "True", "False"}, gen : {generation}]
  /\ refs' \in SUBSET (0 .. generation)
  /\ verdict'.st = "True" => refs' = {generation}
  /\ UNCHANGED generation

Next == Edit \/ Judge

Spec == Init /\ [][Next]_<<generation, verdict, refs>>
=============================================================================
