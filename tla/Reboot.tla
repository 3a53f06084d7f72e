-------------------------------- MODULE Reboot --------------------------------
(***************************************************************************)
(* Repair by reset: Reboot of the cloud provider and of                    *)
(* providers/instance/reboot.go, which core calls again and again with the *)
(* same operation until it returns nil or a terminal refusal, and the      *)
(* server's action log at Hetzner, from which alone a call can tell what   *)
(* an earlier one did.  Hetzner dates its actions by its own clock, accepts *)
(* them before it carries them out, and may accept one whose answer is     *)
(* lost.  Between the three requests of a call operators and other         *)
(* controllers act on the same server.  A request whose caller has given   *)
(* up has taken effect by then or never will.                              *)
(***************************************************************************)
EXTENDS Integers, Sequences, FiniteSets

CONSTANTS
  Page,        \* actions on the one page RecentActions reads: 50 in the code
  Skews,       \* how far Hetzner's clock may be from the API server's
  Commands,    \* the actions others run
  MaxOps,      \* bound: reboots core commits
  MaxActions,  \* bound: actions others run on the server
  MaxTime,     \* bound: the last instant
  MaxFailures  \* bound: failed requests and lost answers

ASSUME BoundsAreSane == Page \in Nat \ {0} /\ Skews \subseteq Int /\ {MaxOps, MaxActions, MaxTime, MaxFailures} \subseteq Nat

VARIABLES
  server,   \* the server at Hetzner
  actions,  \* its actions, newest first
  op,       \* core's operation and the call in flight
  skew, ops, others, clock, failures

rebootVars == <<server, actions, op, skew, ops, others, clock, failures>>

\* at: the Rebooting condition's transition time, 0 if there is none.  status: the
\* server's status as the call read it.  History: which call of the operation this is,
\* and whether others touched the server since the call read it.
NoOp == [phase |-> "none", at |-> 0, status |-> "running", call |-> 0, touched |-> FALSE]

\* The provider id may name a server that is not managed, or not this NodeClaim's.
RebootInit ==
  /\ server \in [exists : {TRUE}, ours : BOOLEAN, status : {"running"}]
  /\ actions = <<>> /\ op = NoOp /\ skew \in Skews
  /\ ops = 0 /\ others = 0 /\ clock = 1 /\ failures = 0

Ended == op.phase \in {"none", "done", "refused", "notfound"}

-----------------------------------------------------------------------------
\* Core commits a reboot (external).
Request ==
  /\ Ended /\ op.phase # "refused" /\ ops < MaxOps
  /\ \E at \in {0, clock} : op' = [NoOp EXCEPT !.phase = "call", !.at = at]
  /\ ops' = ops + 1
  /\ UNCHANGED <<server, actions, skew, others, clock, failures>>

\* rebootError: a rejected credential is terminal, anything else core retries.
rebootError(phase) ==
  /\ op.phase = phase /\ failures < MaxFailures /\ failures' = failures + 1
  /\ \E p \in {"call", "refused"} : op' = [op EXCEPT !.phase = p]

\* Variant: a server that is gone is reported as a failure to retry.
GetServerRetrying ==
  /\ op.phase = "call"
  /\ \/ /\ op' = [op EXCEPT !.phase = CASE ~server.exists -> "call"
                                        [] server.exists /\ ~server.ours -> "refused"
                                        [] OTHER -> "list",
                               !.status = server.status, !.call = failures + 1, !.touched = FALSE]
        /\ UNCHANGED failures
     \/ rebootError("call")
  /\ UNCHANGED <<server, actions, skew, ops, others, clock>>

\* Reboot up to the ownership gates, on a live read of the server.
GetServer ==
  /\ op.phase = "call"
  /\ \/ /\ op' = [op EXCEPT !.phase = CASE ~server.exists -> "notfound"
                                        [] server.exists /\ ~server.ours -> "refused"
                                        [] OTHER -> "list",
                               !.status = server.status, !.call = failures + 1, !.touched = FALSE]
        /\ UNCHANGED failures
     \/ rebootError("call")
  /\ UNCHANGED <<server, actions, skew, ops, others, clock>>

heldDown == {"stop_server", "shutdown_server", "enable_rescue"}

\* One page, newest first.
RecentActions == SubSeq(actions, 1, IF Len(actions) > Page THEN Page ELSE Len(actions))

\* Variant: only a reset after the request's own second counts.
CountsLater(a) == a.status # "error" /\ a.command = "reset_server" /\ op.at # 0 /\ a.started > op.at

\* An action that counts as this operation's reset.
Counts(a) == a.status # "error" /\ a.command = "reset_server" /\ op.at # 0 /\ a.started >= op.at

\* Variant: the server's status stands for what was done to it.
VerdictByStatus(page) ==
  CASE \E i \in DOMAIN page : Counts(page[i]) -> "done"
    [] op.status = "off" -> "refused"
    [] OTHER -> "reset"

Verdict(page) ==
  CASE \E i \in DOMAIN page : page[i].status # "error" /\ page[i].command \in heldDown -> "refused"
    [] \E i \in DOMAIN page : Counts(page[i]) -> "done"
    [] op.status = "off" -> "refused"
    [] OTHER -> "reset"

\* Reboot's judgement of the recent actions.
JudgeActions ==
  /\ op.phase = "list"
  /\ \/ /\ op' = [op EXCEPT !.phase = IF server.exists THEN Verdict(RecentActions) ELSE "notfound"]
        /\ UNCHANGED failures
     \/ rebootError("list")
  /\ UNCHANGED <<server, actions, skew, ops, others, clock>>

\* Hetzner accepts an action, for a call of ours or, call 0, for someone else.
Log(command, call) ==
  actions' = <<[command |-> command, status |-> "running", started |-> clock + skew,
                op |-> IF call = 0 THEN 0 ELSE ops, call |-> call]>> \o actions

\* Reset returns nil once Hetzner has accepted the action.  If the answer is lost
\* hcloud-go asks again within the same call, or the call fails; a request that was
\* not accepted fails too.
Reset ==
  /\ op.phase = "reset"
  /\ \/ ~server.exists /\ op' = [op EXCEPT !.phase = "notfound"] /\ UNCHANGED <<actions, failures>>
     \/ /\ server.exists /\ Log("reset_server", op.call)
        /\ op' = [op EXCEPT !.phase = "done"] /\ UNCHANGED failures
     \/ /\ server.exists /\ Log("reset_server", op.call)
        /\ failures < MaxFailures /\ failures' = failures + 1
        /\ \E p \in {"reset", "call"} : op' = [op EXCEPT !.phase = p]
     \/ rebootError("reset") /\ UNCHANGED actions
  /\ UNCHANGED <<server, skew, ops, others, clock>>

-----------------------------------------------------------------------------
Touch == op' = [op EXCEPT !.touched = op.phase \in {"list", "reset"}]

\* Operators and other controllers (external); the guest may also halt by itself.
Other ==
  /\ server.exists /\ others < MaxActions /\ others' = others + 1
  /\ \/ \E command \in Commands : Log(command, 0) /\ UNCHANGED server
     \/ server' = [server EXCEPT !.status = "off"] /\ UNCHANGED actions
  /\ Touch /\ UNCHANGED <<skew, ops, clock, failures>>

stops == {"stop_server", "shutdown_server"}
starts == {"poweron_server", "reset_server"}

\* Hetzner carries out an action or fails it (external).
Settle ==
  /\ server.exists
  /\ \E i \in DOMAIN actions, outcome \in {"success", "error"} :
       /\ actions[i].status = "running"
       /\ actions' = [actions EXCEPT ![i].status = outcome]
       /\ server' = [server EXCEPT !.status = CASE outcome = "success" /\ actions[i].command \in stops -> "off"
                                                [] outcome = "success" /\ actions[i].command \in starts -> "running"
                                                [] OTHER -> @]
  /\ IF server' = server THEN op' = op ELSE Touch
  /\ UNCHANGED <<skew, ops, others, clock, failures>>

Remove ==
  /\ server.exists /\ server' = [server EXCEPT !.exists = FALSE]
  /\ UNCHANGED <<actions, op, skew, ops, others, clock, failures>>

ClockTicks == clock < MaxTime /\ clock' = clock + 1 /\ UNCHANGED <<server, actions, op, skew, ops, others, failures>>

Call == GetServer \/ JudgeActions \/ Reset
RebootNext == Request \/ Call \/ Other \/ Settle \/ Remove \/ ClockTicks

RebootSpec == RebootInit /\ [][RebootNext]_rebootVars

\* Core retries until the operation has ended.
FairReboot == RebootSpec /\ WF_rebootVars(Call)

-----------------------------------------------------------------------------
SinceRequest == Cardinality({i \in DOMAIN actions : actions[i].started >= op.at})

\* An action some call of the present operation asked for.
Mine(a) == a.op # 0 /\ a.op = ops

\* What a call can recognise an earlier one by: the request has a time, Hetzner dates
\* the operation's resets no earlier, and the page holds what happened since.
Recognisable ==
  op.at # 0 /\ SinceRequest <= Page /\ \A i \in DOMAIN actions : Mine(actions[i]) => actions[i].started >= op.at

\* "a reset from an earlier call counts as issued": however often core retries and
\* whatever answers are lost, all resets of one operation that did not fail come from
\* one call, where calls can recognise each other ("hcloud-go's own retries inside one
\* Reset call are not visible here"); and Reboot returns nil only if Hetzner has
\* accepted a reset for this operation or one dated since its request.
ResetsOnce ==
  /\ Recognisable =>
       \A i, j \in {k \in DOMAIN actions : Mine(actions[k]) /\ actions[k].status # "error"} : actions[i].call = actions[j].call
  /\ op.phase = "done" =>
       \E a \in {actions[i] : i \in DOMAIN actions} :
         a.command = "reset_server" /\ (Mine(a) \/ (op.at # 0 /\ a.started >= op.at))

\* A call reaches an answer core can act on: nil, not found or a refusal.
OperationEnds == []<>Ended

HeldDown(i) == actions[i].command \in heldDown /\ actions[i].status # "error"

\* "A server that is off, or that someone stopped or put into rescue, is refused
\* rather than brought back": when Hetzner accepts a reset of ours for a server that is
\* off, or whose page of actions has one that holds it down, someone touched the server
\* after that very call read it.  Between the read, the listing and the reset nothing
\* is checked again.
SparesHeldDown ==
  [][Len(actions') > Len(actions) /\ actions'[1].op # 0 /\ ~op.touched
       => server.status # "off" /\ \A i \in DOMAIN actions : HeldDown(i) => i > Page]_rebootVars
=============================================================================
