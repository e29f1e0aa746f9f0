--------------------------- MODULE PlanSubmit ---------------------------
(***************************************************************************)
(* The release leg of the catalog on ONE cluster: cmd/plan-submit, run by  *)
(* the release postsubmit for a merge, against the cluster's own plan-api. *)
(* The other cluster is a second copy of this specification over the same  *)
(* history: the two share nothing else.                                    *)
(*                                                                         *)
(* Releases of successive merges may overlap, be run again by hand and die *)
(* between any two steps; a request whose sender gave up may still be      *)
(* carried out; operators promote and delete plans at any time.  Nothing   *)
(* but plan-api writes a Plan, and it only ever creates.                   *)
(***************************************************************************)
EXTENDS SubmitScope, Sequences

CONSTANTS
  Run,          \* release runs (pipeline runs of the postsubmit)
  SomeTree,     \* the trees a merge may publish
  MaxCommits,   \* bound: the commits of main
  AllowAll,     \* whether an operator may run with -all
  AllowRerun,   \* whether the release of one commit may be run more than once
  NoPlan,       \* no Plan object of this name on the cluster
  NoReply       \* no answer from plan-api has arrived

ASSUME SubmitAssumption ==
  /\ SomeTree \subseteq Tree
  /\ MaxCommits \in Nat
  /\ AllowAll \in BOOLEAN
  /\ AllowRerun \in BOOLEAN

Verdict == {"identical", "differs", "conflict_running", "unknown", "unreadable"}

\* An answer: created is 2xx, rejected any status but 2xx and 409, and a verdict
\* is a 409 with that result in its body (unreadable: empty, truncated, without
\* a result, or with one this tool does not know).
Reply == {"created", "rejected"} \cup Verdict

ASSUME MarkerAssumption2 == NoReply \notin Reply

CR == [brief : Brief, state : {"paused", "running", "terminal"}]

ASSUME MarkerAssumption3 == NoPlan \notin CR

VARIABLES
  history,   \* the trees of main, oldest first
  stage,     \* where each run is
  head,      \* the commit each run has checked out
  all,       \* whether it was given -all
  todo,      \* the files it has still to submit, the current one included
  failed,    \* whether a submission has failed so far (failed > 0)
  expired,   \* whether its 60-second context has ended
  reply,     \* the answer that reached it for its current file
  net,       \* requests plan-api has not finished handling
  live,      \* the Plan objects on the cluster
  held,      \* observation: requests of a run the cluster was seen to hold
  deleted    \* observation: plans an operator has deleted at least once

vars == <<history, stage, head, all, todo, failed, expired, reply, net,
          live, held, deleted>>

runVars   == <<stage, head, all, todo, failed, expired, reply>>
observers == <<held, deleted>>

Stage == {"idle", "start", "token", "posting", "await", "ok", "printed", "failed"}

Packet == [run  : Run,
           file : File,
           req  : Request,
           at   : {"create", "compare"}]

TypeOK ==
  /\ history \in Seq(SomeTree)
  /\ stage   \in [Run -> Stage]
  /\ head    \in [Run -> Nat]
  /\ all     \in [Run -> BOOLEAN]
  /\ todo    \in [Run -> SUBSET File]
  /\ failed  \in [Run -> BOOLEAN]
  /\ expired \in [Run -> BOOLEAN]
  /\ reply   \in [Run -> Reply \cup {NoReply}]
  /\ net     \in SUBSET Packet
  /\ live    \in [PlanName -> CR \cup {NoPlan}]
  /\ held    \in [Run -> SUBSET Request]
  /\ deleted \in SUBSET PlanName

Init ==
  /\ history \in {<<t>> : t \in SomeTree}
  /\ stage   = [r \in Run |-> "idle"]
  /\ head    = [r \in Run |-> 0]
  /\ all     = [r \in Run |-> FALSE]
  /\ todo    = [r \in Run |-> {}]
  /\ failed  = [r \in Run |-> FALSE]
  /\ expired = [r \in Run |-> FALSE]
  /\ reply   = [r \in Run |-> NoReply]
  /\ net     = {}
  /\ live    = [p \in PlanName |-> NoPlan]
  /\ held    = [r \in Run |-> {}]
  /\ deleted = {}

------------------------------------------------------------------------------
(* The catalog and the pipeline that starts releases.                         *)

Merge(tree) ==
  /\ Len(history) < MaxCommits
  /\ tree # history[Len(history)]
  /\ history' = Append(history, tree)
  /\ UNCHANGED <<runVars, net, live, observers>>

StartRun(r, h, everything) ==
  /\ stage[r] = "idle"
  /\ everything => AllowAll
  /\ AllowRerun \/ \A q \in Run : stage[q] # "idle" => head[q] # h
  /\ stage' = [stage EXCEPT ![r] = "start"]
  /\ head'  = [head EXCEPT ![r] = h]
  /\ all'   = [all EXCEPT ![r] = everything]
  /\ UNCHANGED <<history, todo, failed, expired, reply, net, live, observers>>

------------------------------------------------------------------------------
(* One run of plan-submit.                                                    *)

HeadTree(r) == history[head[r]]

\* Seeded fault for CatalogIsLive: the diff is taken from main as it is by now.
BaseOfMain(r) == history[Len(history)]

\* HEAD^
BaseTree(r) == history[head[r] - 1]
HasParent(r) == head[r] > 1

\* Seeded fault for OnlyTouchedPlansAppear: every release submits every file.
ScopesOfTheDirectory(r) == {Discover(HeadTree(r))}

\* The scopes the run may compute: all of them, or what git reports as touched.
Scopes(r) ==
  IF all[r]
    THEN {Discover(HeadTree(r))}
    ELSE {DiffScope(BaseTree(r), HeadTree(r), from) :
            from \in Pairings(BaseTree(r), HeadTree(r))}

End(r, outcome) ==
  /\ stage' = [stage EXCEPT ![r] = outcome]
  /\ UNCHANGED <<history, head, all, todo, failed, expired, reply, net, live,
                 observers>>

\* resolveBase: no parent, or a shallow clone that could not be deepened.
BaseUnresolved(r) ==
  /\ stage[r] = "start"
  /\ ~all[r]
  /\ End(r, "failed")

NothingToSubmit(r) ==
  /\ stage[r] = "start"
  /\ all[r] \/ HasParent(r)
  /\ {} \in Scopes(r)
  /\ End(r, "ok")

\* Every file is projected before the token is fetched; one bad file ends the run.
ProjectFails(r) ==
  /\ stage[r] = "start"
  /\ all[r] \/ HasParent(r)
  /\ \E scope \in Scopes(r) : \E f \in scope : ~Projectable(HeadTree(r)[f])
  /\ End(r, "failed")

\* Seeded fault for BadFileSubmitsNothing: bad files are left out, the rest is sent.
ProjectTheGoodOnes(r) ==
  /\ stage[r] = "start"
  /\ all[r] \/ HasParent(r)
  /\ \E scope \in Scopes(r) \ {{}} :
       todo' = [todo EXCEPT ![r] = {f \in scope : Projectable(HeadTree(r)[f])}]
  /\ stage' = [stage EXCEPT ![r] = "token"]
  /\ UNCHANGED <<history, head, all, failed, expired, reply, net, live, observers>>

ProjectAll(r) ==
  /\ stage[r] = "start"
  /\ all[r] \/ HasParent(r)
  /\ \E scope \in Scopes(r) \ {{}} :
       /\ \A f \in scope : Projectable(HeadTree(r)[f])
       /\ \/ /\ stage' = [stage EXCEPT ![r] = "token"]
             /\ todo'  = [todo EXCEPT ![r] = scope]
          \/ /\ stage' = [stage EXCEPT ![r] = "printed"]   \* -dry-run
             /\ UNCHANGED todo
  /\ UNCHANGED <<history, head, all, failed, expired, reply, net, live, observers>>

\* No plan-api URL, no credentials, or the token endpoint refused or timed out.
TokenFails(r) ==
  /\ stage[r] = "token"
  /\ End(r, "failed")

TokenMinted(r) ==
  /\ stage[r] = "token"
  /\ ~expired[r]
  /\ End(r, "posting")

\* Seeded fault for EveryRunEnds: only the token is fetched under the deadline.
DeadlineForTheToken(r) ==
  /\ stage[r] = "token"
  /\ ~expired[r]
  /\ expired' = [expired EXCEPT ![r] = TRUE]
  /\ UNCHANGED <<history, stage, head, all, todo, failed, reply, net, live, observers>>

\* context.WithTimeout: one deadline for the token and every request.
Deadline(r) ==
  /\ stage[r] \in {"token", "posting", "await"}
  /\ ~expired[r]
  /\ expired' = [expired EXCEPT ![r] = TRUE]
  /\ UNCHANGED <<history, stage, head, all, todo, failed, reply, net, live, observers>>

Current(r) ==
  CHOOSE f \in todo[r] : \A g \in todo[r] : Pos[f] <= Pos[g]

Sends(r) == Project(HeadTree(r)[Current(r)])

Post(r) ==
  /\ stage[r] = "posting"
  /\ todo[r] # {}
  /\ ~expired[r]
  /\ stage' = [stage EXCEPT ![r] = "await"]
  /\ net' = net \cup {[run |-> r, file |-> Current(r), req |-> Sends(r),
                       at |-> "create"]}
  /\ UNCHANGED <<history, head, all, todo, failed, expired, reply, live, observers>>

\* Seeded fault for GreenMeansHeld: the last file alone decides the exit code.
NextFileForgets(r, ok) ==
  /\ stage'  = [stage EXCEPT ![r] = "posting"]
  /\ todo'   = [todo EXCEPT ![r] = @ \ {Current(r)}]
  /\ failed' = [failed EXCEPT ![r] = ~ok]
  /\ reply'  = [reply EXCEPT ![r] = NoReply]
  /\ UNCHANGED <<history, head, all, expired, net, live, observers>>

\* Go on to the next file, with the current one recorded as submitted or not.
NextFile(r, ok) ==
  /\ stage'  = [stage EXCEPT ![r] = "posting"]
  /\ todo'   = [todo EXCEPT ![r] = @ \ {Current(r)}]
  /\ failed' = [failed EXCEPT ![r] = @ \/ ~ok]
  /\ reply'  = [reply EXCEPT ![r] = NoReply]
  /\ UNCHANGED <<history, head, all, expired, net, live, observers>>

\* submit returned an error: nothing was sent, or no answer came back (the
\* connection broke, or the context ended).  What was sent stays on its way.
PostFails(r) ==
  /\ \/ stage[r] = "posting" /\ todo[r] # {}
     \/ stage[r] = "await"
  /\ NextFile(r, FALSE)

\* Seeded fault for GreenReleasesAgree: any 409 is a success.
ClassifyAnyConflict(result) == result \in Verdict

\* classifyResubmit: only the identical verdict is a skip.
ClassifyResubmit(result) == result = "identical"

PostAnswered(r) ==
  /\ stage[r] = "await"
  /\ reply[r] # NoReply
  /\ NextFile(r, \/ reply[r] = "created"
                 \/ reply[r] \in Verdict /\ ClassifyResubmit(reply[r]))

Finish(r) ==
  /\ stage[r] = "posting"
  /\ todo[r] = {}
  /\ End(r, IF failed[r] THEN "failed" ELSE "ok")

Ended(r) == stage[r] \in {"ok", "printed", "failed"}

\* The pod is evicted, or the pipeline's own timeout strikes.
Killed(r) ==
  /\ stage[r] # "idle"
  /\ ~Ended(r)
  /\ End(r, "failed")

------------------------------------------------------------------------------
(* plan-api (external), as the comments of main.go and resubmit.go have it.   *)

\* The answer reaches the run if that run is still waiting for it.
Answer(q, a) ==
  reply' = IF stage[q.run] = "await" /\ Current(q.run) = q.file
             THEN [reply EXCEPT ![q.run] = a]
             ELSE reply

ApiCreate(q) ==
  /\ q.at = "create"
  /\ IF live[q.req.name] = NoPlan
       THEN /\ live' = [live EXCEPT ![q.req.name] =
                          [brief |-> q.req.brief, state |-> "paused"]]
            /\ held' = [held EXCEPT ![q.run] = @ \cup {q.req}]
            /\ net'  = net \ {q}
            /\ Answer(q, "created")
       ELSE /\ net' = (net \ {q}) \cup {[q EXCEPT !.at = "compare"]}
            /\ UNCHANGED <<live, held, reply>>
  /\ UNCHANGED <<history, stage, head, all, todo, failed, expired, deleted>>

\* Validation, authorisation or the server itself fails; nothing is created.
ApiReject(q) ==
  /\ q.at = "create"
  /\ net' = net \ {q}
  /\ Answer(q, "rejected")
  /\ UNCHANGED <<history, stage, head, all, todo, failed, expired, live, observers>>

\* After AlreadyExists the existing Plan is fetched, in a step of its own.
ResubmitVerdict(req) ==
  CASE live[req.name] = NoPlan               -> "unknown"
    [] live[req.name] # NoPlan /\ live[req.name].brief = req.brief -> "identical"
    [] OTHER -> IF live[req.name].state = "running" THEN "conflict_running"
                                                    ELSE "differs"

ApiCompare(q) ==
  /\ q.at = "compare"
  /\ net' = net \ {q}
  /\ \E a \in {ResubmitVerdict(q.req), "unknown", "unreadable"} :
       /\ Answer(q, a)
       /\ held' = IF a = "identical"
                    THEN [held EXCEPT ![q.run] = @ \cup {q.req}]
                    ELSE held
  /\ UNCHANGED <<history, stage, head, all, todo, failed, expired, live, deleted>>

------------------------------------------------------------------------------
(* Operators and the controller (external).                                   *)

SetState(p, from, to) ==
  /\ live[p] # NoPlan
  /\ live[p].state = from
  /\ live' = [live EXCEPT ![p].state = to]
  /\ UNCHANGED <<history, runVars, net, observers>>

Promote(p)   == SetState(p, "paused", "running")
Terminate(p) == SetState(p, "running", "terminal")

Delete(p) ==
  /\ live[p] # NoPlan
  /\ live' = [live EXCEPT ![p] = NoPlan]
  /\ deleted' = deleted \cup {p}
  /\ UNCHANGED <<history, runVars, net, held>>

------------------------------------------------------------------------------

\* What a run does once it knows its base.
Prepares(r) == NothingToSubmit(r) \/ ProjectFails(r) \/ ProjectAll(r)

RunStep(r) ==
  \/ BaseUnresolved(r) \/ Prepares(r)
  \/ TokenFails(r) \/ TokenMinted(r) \/ Deadline(r)
  \/ Post(r) \/ PostFails(r) \/ PostAnswered(r) \/ Finish(r) \/ Killed(r)

Next ==
  \/ \E t \in SomeTree : Merge(t)
  \/ \E r \in Run, h \in 1 .. Len(history), everything \in BOOLEAN :
       StartRun(r, h, everything)
  \/ \E r \in Run : RunStep(r)
  \/ \E q \in net : ApiCreate(q) \/ ApiReject(q) \/ ApiCompare(q)
  \/ \E p \in PlanName : Promote(p) \/ Terminate(p) \/ Delete(p)

Spec == Init /\ [][Next]_vars

\* A started process takes its local steps, and the deadline it set itself does
\* arrive and does end a call that is waiting.  Nothing is assumed of plan-api, nor of
\* the git fetch a merge release may make before that deadline is set: it has none of
\* its own, so all that is assumed is that it returns or the pipeline's timeout comes.
Fairness ==
  \A r \in Run :
    /\ WF_vars(all[r] /\ Prepares(r))
    /\ WF_vars(stage[r] = "start" /\ (Prepares(r) \/ BaseUnresolved(r) \/ Killed(r)))
    /\ WF_vars(Deadline(r))
    /\ WF_vars(expired[r] /\ TokenFails(r))
    /\ WF_vars(expired[r] /\ PostFails(r))
    /\ WF_vars(Finish(r))

FairSpec == Spec /\ Fairness

------------------------------------------------------------------------------
(* Properties.                                                                *)

\* What a release of the run's commit is for: the submittable files its merge
\* changed, or with -all every submittable file.  A root commit has no diff.
Due(r) ==
  IF all[r] THEN Discover(HeadTree(r))
  ELSE IF HasParent(r) THEN Touched(BaseTree(r), HeadTree(r))
  ELSE {}

Outcome(r) ==
  CASE stage[r] = "idle"                -> "none"
    [] stage[r] = "ok"                  -> "green"
    [] stage[r] \in {"printed", "failed"} -> "red"
    [] OTHER                            -> "open"

Amounts(doc) == IF Projectable(doc) THEN Project(doc) ELSE NoSteps

Owes(r) == IF stage[r] = "idle" THEN {} ELSE {Amounts(HeadTree(r)[f]) : f \in Due(r)}

Ledger == INSTANCE PlanLedger WITH
  Unusable <- NoSteps,
  owes     <- [r \in Run |-> Owes(r)],
  verdict  <- [r \in Run |-> Outcome(r)],
  seen     <- held,
  plans    <- [p \in PlanName |-> IF live[p] = NoPlan THEN NoPlan ELSE live[p].brief]

\* Whatever runs overlap, are repeated, die or leave requests behind, the cluster's
\* plans are a ledger of what merges owe: a plan appears as a file of such a merge has
\* it, is never amended, and a release that exits 0 has seen all of its merge there.
\* (Everything between the diff and the exit code; "plan-api only ever creates".)
ImplementsLedger == Ledger!Spec

\* A release that exits 0 has had every plan of its merge on the cluster, with
\* exactly the brief of the file: plan-api answered each request with a create or
\* with an identical plan, and no failure was lost on the way to the exit code.
\* (run's loop and its failed counter, classifyResubmit, the diff scoping.)
GreenMeansHeld ==
  \A r \in Run : stage[r] = "ok" =>
    \A f \in Due(r) : Project(HeadTree(r)[f]) \in held[r]

\* Two releases that both exit 0 cannot have submitted different briefs for one
\* plan unless an operator deleted that plan in between: an amendment the cluster
\* refused is red in at least one of them, in whatever order the two ran.
\* (the 409 verdicts; plan-api never changes an existing Plan.)
GreenReleasesAgree ==
  \A r, s \in Run : stage[r] = "ok" /\ stage[s] = "ok" =>
    \A f \in Due(r), g \in Due(s) :
      LET a == HeadTree(r)[f]
          b == HeadTree(s)[g]
      IN  a.name = b.name /\ a.name \notin deleted => a.brief = b.brief

\* Releases add up: as long as each commit of main has had a green release, in
\* whatever order they ran, each plan file that main has changed is live with the
\* brief it has by now, unless the plan was deleted.  One red or lost release is all
\* it takes, for no later one makes up for it.  (HEAD^ as the base of every diff.)
CatalogIsLive ==
  (\A i \in 2 .. Len(history) : \E r \in Run : stage[r] = "ok" /\ head[r] = i) =>
    \A f \in Discover(history[Len(history)]) :
      LET doc == history[Len(history)][f]
      IN  doc # history[1][f] /\ doc.name \notin deleted =>
            live[doc.name] # NoPlan /\ live[doc.name].brief = doc.brief

\* One unprojectable file in its scope keeps a run from touching the cluster at
\* all, whatever the other files are and whichever comes first.
\* (main.go: "fails the run BEFORE we mint a token or mutate any cluster state".)
BadFileSubmitsNothing ==
  \A r \in Run :
    /\ stage[r] # "idle"
    /\ \E f \in Due(r) : ~Projectable(HeadTree(r)[f])
    => /\ held[r] = {}
       /\ \A q \in net : q.run # r

\* A Plan appears on the cluster only by a request that is being carried out for a
\* run whose own merge changed a file that declares it (or that was given -all), and
\* with what that file says: however late the request arrives, and whoever created
\* the Plan before, an unrelated merge never brings back one somebody deleted.
\* (changed.go: diff scoping; main.go's -all.)
OnlyTouchedPlansAppear ==
  [][\A p \in PlanName : live[p] = NoPlan /\ live'[p] # NoPlan =>
       \E q \in net \ net' :
         /\ q.req.name = p /\ q.req.brief = live'[p].brief
         /\ \E f \in Due(q.run) : Project(HeadTree(q.run)[f]) = q.req]_vars

\* A release that has started ends, with plan-api or the token endpoint hanging
\* for ever as well, and without the pipeline's timeout once its diff is known.
\* (the 60-second context around the token and every POST.)
EveryRunEnds ==
  \A r \in Run : stage[r] # "idle" ~> Ended(r)

\* What changed.go says scoping gives: once a plan's file is gone from main and an
\* operator has deleted the Plan, the Plan stays away.
DeletionSticks ==
  [][\A p \in deleted : live[p] = NoPlan /\ live'[p] # NoPlan =>
       \E f \in Discover(history[Len(history)]) : history[Len(history)][f].name = p]_vars

\* What resubmit.go says of a SKIP, "The on-cluster plan already matches this
\* file": two green releases of one plan, not deleted in between, submitted the
\* same file.
GreenMeansFileApplied ==
  \A r, s \in Run : stage[r] = "ok" /\ stage[s] = "ok" =>
    \A f \in Due(r), g \in Due(s) :
      LET a == HeadTree(r)[f]
          b == HeadTree(s)[g]
      IN  a.name = b.name /\ a.name \notin deleted => a = b

\* Whatever pairs git's rename detection finds, the files a merge release submits
\* are the submittable files whose content the merge changed, and the deletions it
\* reports are the files the merge removed.
\* (parseNameStatus, selectChanged, discover.)
ScopeIsExact ==
  \A i \in 2 .. Len(history) :
    LET old == history[i-1]
        new == history[i]
    IN  \A from \in Pairings(old, new) :
          /\ DiffScope(old, new, from) = Touched(old, new)
          /\ DeletedPaths(NameStatus(old, new, from)) = Deleted(old, new)

==============================================================================
