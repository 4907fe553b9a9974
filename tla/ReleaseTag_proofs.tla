------------------------- MODULE ReleaseTag_proofs -------------------------
(***************************************************************************)
(* Proofs that one tag is published, that it stays, and that it is what    *)
(* was validated, for any number of releasers and any history of commits.  *)
(***************************************************************************)
EXTENDS ReleaseTag, FiniteSetTheorems, TLAPS

\* What a script knows of its call, and what is recorded of a release.
Calls == [dryRun : BOOLEAN, target : Commits \cup {None}, moved : BOOLEAN]
Releases == [by : Releasers, commit : Commits, main : Commits, moved : BOOLEAN]

\* The types of the refs, the clones and the scripts.
Types ==
    /\ main \in Commits
    /\ tag \in Commits \cup {None}
    /\ protected \in BOOLEAN
    /\ ci \subseteq Commits
    /\ head \in [Releasers -> Commits]
    /\ localTag \in [Releasers -> Commits \cup {None}]
    /\ step \in [Releasers -> Steps]
    /\ call \in [Releasers -> Calls]
    /\ report \in [Releasers -> Commits \cup {None}]
    /\ published \subseteq Releases

\* Steps before the target is known, and those after every check.
Unresolved == {"idle", "resolve head"}
Releasing == {"tag", "push"}

\* What script r has established by the time it is at its step: unless HEAD was
\* moved it still stands at the target, whose versions match.  Nothing is tagged
\* in a dry run, without protection or without a successful workflow.
Validated(r) ==
    /\ step[r] \notin Unresolved => call[r].target \in Commits
    /\ step[r] # "idle" /\ ~call[r].moved => head[r] \in Versioned
    /\ step[r] \notin Unresolved /\ ~call[r].moved => head[r] = call[r].target
    /\ step[r] \in {"ci", "local checks", "tag", "push"} => protected
    /\ step[r] = "local checks" /\ ~call[r].dryRun => call[r].target \in ci
    /\ step[r] \in Releasing => call[r].target \in ci
    /\ step[r] = "push" => localTag[r] \in Commits
    /\ step[r] = "push" /\ ~call[r].moved => localTag[r] = call[r].target

\* Once a tag is published GitHub keeps it, and there is no second one.
Kept ==
    /\ published # {} => protected
    /\ \A p, q \in published : p = q

\* What ReleaseIsVerified says of one release.
Verified(p) ==
    /\ tag = p.commit
    /\ ~p.moved =>
         p.main = p.commit /\ Descends(main, p.commit) /\ p.commit \in Versioned \cap ci

\* A report of script r is true.
Honest(r) ==
    report[r] \in Commits =>
        \E p \in published : p.by = r /\ (p.moved \/ p.commit = report[r])

\* The inductive invariant.
IInv ==
    /\ Types
    /\ \A r \in Releasers : Validated(r)
    /\ Kept
    /\ \A p \in published : Verified(p)
    /\ \A r \in Releasers : Honest(r)

-----------------------------------------------------------------------------
(* What most steps leave alone                                             *)

\* main only goes forward: what it descended from it still descends from.
LEMMA DescentGoesOn ==
    ASSUME Types, Types', Descends(main', main),
           NEW commit \in Commits, Descends(main, commit)
    PROVE  Descends(main', commit)
BY CommitsAssumption DEF Types, Descends

\* Each commit descends from itself.
LEMMA DescendsFromItself ==
    ASSUME NEW commit \in Commits
    PROVE  Descends(commit, commit)
BY CommitsAssumption DEF Descends

\* What a script has established holds as long as it is left alone.
LEMMA ValidatedStays ==
    ASSUME NEW r \in Releasers, Validated(r), Types,
           step'[r] = step[r], call'[r] = call[r],
           head'[r] = head[r], localTag'[r] = localTag[r],
           protected' = protected, ci \subseteq ci'
    PROVE  Validated(r)'
BY DEF Validated

\* What is published stays verified as long as the tag is left alone and main
\* goes forward.
LEMMA PublishedStays ==
    ASSUME IInv, Types', published' = published, tag' = tag, protected' = protected,
           Descends(main', main), ci \subseteq ci'
    PROVE  Kept' /\ \A p \in published' : Verified(p)'
PROOF
<1>1. Kept'
      BY DEF IInv, Kept
<1>2. ASSUME NEW p \in published' PROVE Verified(p)'
  <2>1. Verified(p) /\ p.commit \in Commits
        BY <1>2 DEF IInv, Types, Releases
  <2>2. Descends(main, p.commit) => Descends(main', p.commit)
        BY <2>1, DescentGoesOn DEF IInv
  <2> QED BY <2>1, <2>2 DEF Verified
<1> QED BY <1>1, <1>2

\* A step of script r, or of its developer, that touches nothing remote, keeps
\* the invariant if it keeps what r has established.
LEMMA LocalStep ==
    ASSUME IInv, NEW r \in Releasers, Types', Validated(r)',
           UNCHANGED <<remote, published>>,
           \A q \in Releasers \ {r} :
               /\ step'[q] = step[q] /\ call'[q] = call[q]
               /\ head'[q] = head[q] /\ localTag'[q] = localTag[q]
               /\ report'[q] = report[q],
           report'[r] \in {report[r], None}
    PROVE  IInv'
PROOF
<1>1. \A q \in Releasers : Validated(q)'
  <2>1. ASSUME NEW q \in Releasers \ {r} PROVE Validated(q)'
        BY ValidatedStays DEF IInv, remote
  <2> QED BY <2>1
<1>2. Kept' /\ \A p \in published' : Verified(p)'
  <2>1. Descends(main', main)
        BY DescendsFromItself DEF IInv, Types, remote
  <2> QED BY <2>1, PublishedStays DEF remote
<1>3. \A q \in Releasers : Honest(q)'
  <2>1. \A q \in Releasers : report'[q] \in {report[q], None}
        OBVIOUS
  <2>2. ASSUME NEW q \in Releasers PROVE Honest(q)'
        BY <2>1, CommitsAssumption DEF IInv, Honest
  <2> QED BY <2>2
<1> QED BY <1>1, <1>2, <1>3 DEF IInv

\* A step of the others keeps the invariant if it keeps what is published.
LEMMA RemoteStep ==
    ASSUME IInv, Types', UNCHANGED <<protected, clones, scripts, published>>,
           ci \subseteq ci', Kept', \A p \in published' : Verified(p)'
    PROVE  IInv'
PROOF
<1>1. \A q \in Releasers : Validated(q)'
  <2>1. ASSUME NEW q \in Releasers PROVE Validated(q)'
        BY ValidatedStays DEF IInv, clones, scripts
  <2> QED BY <2>1
<1>2. \A q \in Releasers : Honest(q)'
      BY DEF IInv, Honest, scripts
<1> QED BY <1>1, <1>2 DEF IInv

-----------------------------------------------------------------------------
(* The script                                                              *)

\* A script that ends has nothing to establish.
LEMMA FinishKeeps ==
    ASSUME IInv, NEW r \in Releasers, Finish(r, None), UNCHANGED <<remote, clones, published>>
    PROVE  IInv'
PROOF
<1>1. step'[r] = "idle" /\ report'[r] = None
      BY DEF Finish, IInv, Types
<1>2. Types'
      BY DEF Finish, IInv, Types, Calls, Called, Steps, remote, clones
<1>3. Validated(r)'
      BY <1>1 DEF Validated, Unresolved, Releasing
<1>4. \A q \in Releasers \ {r} :
        /\ step'[q] = step[q] /\ call'[q] = call[q]
        /\ head'[q] = head[q] /\ localTag'[q] = localTag[q]
        /\ report'[q] = report[q]
      BY DEF Finish, IInv, Types, clones
<1> QED BY <1>1, <1>2, <1>3, <1>4, LocalStep

\* A script that goes on keeps the invariant if its next step may rely on what
\* this one established.
LEMMA GoOnKeeps ==
    ASSUME IInv, NEW r \in Releasers, NEW next \in Steps, GoOn(r, next),
           UNCHANGED <<remote, clones, published>>, Validated(r)'
    PROVE  IInv'
PROOF
<1>1. Types'
      BY DEF GoOn, IInv, Types, remote, clones
<1>2. \A q \in Releasers \ {r} :
        /\ step'[q] = step[q] /\ call'[q] = call[q]
        /\ head'[q] = head[q] /\ localTag'[q] = localTag[q]
        /\ report'[q] = report[q]
      BY DEF GoOn, IInv, Types, clones
<1>3. report'[r] \in {report[r], None}
      BY DEF GoOn
<1> QED BY <1>1, <1>2, <1>3, LocalStep

\* A check that passes establishes its condition.
LEMMA CheckKeeps ==
    ASSUME IInv, NEW r \in Releasers, NEW at, NEW condition, NEW next \in Steps,
           Check(r, at, condition, next),
           condition /\ GoOn(r, next) /\ UNCHANGED <<remote, clones, published>> => Validated(r)'
    PROVE  IInv'
PROOF
<1>1. CASE condition
      BY <1>1, GoOnKeeps DEF Check
<1>2. CASE ~condition
      BY <1>2, FinishKeeps DEF Check
<1> QED BY <1>1, <1>2

\* The checks of validate_release.
LEMMA ChecksKeep ==
    ASSUME IInv, NEW r \in Releasers,
           \/ Check(r, "compare main", call[r].target = main, "look for tag")
           \/ Check(r, "look for tag", localTag[r] = None /\ tag = None, "protection")
           \/ Protection(r)
           \/ Check(r, "ci", call[r].target \in ci, "local checks")
    PROVE  IInv'
PROOF
<1>0. Validated(r) /\ step \in [Releasers -> Steps] /\ call[r].dryRun \in BOOLEAN
      BY DEF IInv, Types, Calls
<1>1. CASE Check(r, "compare main", call[r].target = main, "look for tag")
  <2>1. GoOn(r, "look for tag") /\ UNCHANGED <<remote, clones, published>>
        /\ step[r] = "compare main" => Validated(r)'
        BY <1>0 DEF GoOn, Validated, Unresolved, Releasing, remote, clones
  <2>2. step[r] = "compare main" /\ "look for tag" \in Steps
        BY <1>1 DEF Check, Steps
  <2> QED BY <1>1, <2>1, <2>2, CheckKeeps
<1>2. CASE Check(r, "look for tag", localTag[r] = None /\ tag = None, "protection")
  <2>1. GoOn(r, "protection") /\ UNCHANGED <<remote, clones, published>>
        /\ step[r] = "look for tag" => Validated(r)'
        BY <1>0 DEF GoOn, Validated, Unresolved, Releasing, remote, clones
  <2>2. step[r] = "look for tag" /\ "protection" \in Steps
        BY <1>2 DEF Check, Steps
  <2> QED BY <1>2, <2>1, <2>2, CheckKeeps
<1>3. CASE Protection(r)
  <2> DEFINE next == IF call[r].dryRun THEN "local checks" ELSE "ci"
  <2>1. GoOn(r, next) /\ UNCHANGED <<remote, clones, published>> /\ protected
        /\ step[r] = "protection" => Validated(r)'
        BY <1>0 DEF GoOn, Validated, Unresolved, Releasing, remote, clones
  <2>2. step[r] = "protection" /\ next \in Steps
        BY <1>3 DEF Protection, Check, Steps, IInv, Types
  <2>3. Check(r, "protection", protected, next)
        BY <1>3 DEF Protection
  <2> HIDE DEF next
  <2> QED BY <2>1, <2>2, <2>3, CheckKeeps
<1>4. CASE Check(r, "ci", call[r].target \in ci, "local checks")
  <2> DEFINE succeeded == call[r].target \in ci
  <2>1. ASSUME GoOn(r, "local checks"), UNCHANGED <<remote, clones, published>>,
               step[r] = "ci", succeeded
        PROVE  Validated(r)'
    <3>1. step'[r] = "local checks" /\ UNCHANGED <<call, head, localTag, ci, protected>>
          BY <1>0, <2>1 DEF GoOn, remote, clones
    <3> QED BY <1>0, <2>1, <3>1 DEF Validated, Unresolved, Releasing
  <2>2. step[r] = "ci" /\ "local checks" \in Steps
        BY <1>4 DEF Check, Steps
  <2>3. Check(r, "ci", succeeded, "local checks")
        BY <1>4
  <2> HIDE DEF succeeded
  <2> QED BY <2>1, <2>2, <2>3, CheckKeeps
<1> QED BY <1>1, <1>2, <1>3, <1>4

\* The steps between the checks.
LEMMA StepsKeep ==
    ASSUME IInv, NEW r \in Releasers,
           Begin(r) \/ ResolveHead(r) \/ LocalChecks(r) \/ CommandFails(r) \/ CreateTag(r)
    PROVE  IInv'
PROOF
<1>0. Validated(r) /\ Types
      BY DEF IInv
<1>1. CASE Begin(r)
  <2>1. PICK dry \in BOOLEAN : call' = [call EXCEPT ![r] = Called(dry)]
        BY <1>1 DEF Begin
  <2>2. call'[r] = Called(dry) /\ Called(dry) \in Calls /\ step'[r] = "resolve head"
        BY <1>0, <1>1, <2>1 DEF Begin, Called, Calls, Types
  <2>3. Types'
        BY <1>0, <1>1, <2>1, <2>2 DEF Begin, Types, Steps, remote, clones
  <2>4. Validated(r)'
        BY <1>0, <1>1, <2>2 DEF Begin, Validated, Unresolved, Releasing, clones
  <2>5. \A q \in Releasers \ {r} :
          /\ step'[q] = step[q] /\ call'[q] = call[q]
          /\ head'[q] = head[q] /\ localTag'[q] = localTag[q]
          /\ report'[q] = report[q]
        BY <1>0, <1>1, <2>1 DEF Begin, Types, clones
  <2>6. report'[r] = report[r] /\ UNCHANGED <<remote, published>>
        BY <1>1 DEF Begin
  <2> QED BY <2>3, <2>4, <2>5, <2>6, LocalStep
<1>2. CASE ResolveHead(r)
  <2>1. /\ step'[r] = "compare main" /\ call'[r] = [call[r] EXCEPT !.target = head[r]]
        /\ call[r] \in Calls /\ head[r] \in Commits
        BY <1>0, <1>2 DEF ResolveHead, Types
  <2>2. /\ call'[r] \in Calls /\ call'[r].target = head[r]
        /\ call'[r].moved = call[r].moved
        BY <2>1 DEF Calls
  <2>3. call' \in [Releasers -> Calls]
        BY <1>0, <1>2, <2>1, <2>2 DEF ResolveHead, Types
  <2>4. Types'
        BY <1>0, <1>2, <2>3 DEF ResolveHead, Types, Steps, remote, clones
  <2>5. Validated(r)'
        BY <1>0, <1>2, <2>1, <2>2 DEF ResolveHead, Validated, Unresolved, Releasing, clones
  <2>6. \A q \in Releasers \ {r} :
          /\ step'[q] = step[q] /\ call'[q] = call[q]
          /\ head'[q] = head[q] /\ localTag'[q] = localTag[q]
          /\ report'[q] = report[q]
        BY <1>0, <1>2 DEF ResolveHead, Types, clones
  <2>7. report'[r] = report[r] /\ UNCHANGED <<remote, published>>
        BY <1>2 DEF ResolveHead
  <2> QED BY <2>4, <2>5, <2>6, <2>7, LocalStep
<1>3. CASE LocalChecks(r)
  <2>1. CASE Finish(r, None)
        BY <1>3, <2>1, FinishKeeps DEF LocalChecks
  <2>2. CASE GoOn(r, "tag") /\ ~call[r].dryRun
    <3>1. /\ step'[r] = "tag" /\ step[r] = "local checks"
          /\ UNCHANGED <<call, head, localTag, ci, protected>>
          BY <1>0, <1>3, <2>2 DEF LocalChecks, GoOn, Types, remote, clones
    <3>2. Validated(r)'
          BY <1>0, <2>2, <3>1 DEF Validated, Unresolved, Releasing
    <3>3. "tag" \in Steps
          BY DEF Steps
    <3> QED BY <1>3, <2>2, <3>2, <3>3, GoOnKeeps DEF LocalChecks
  <2> QED BY <1>3, <2>1, <2>2 DEF LocalChecks
<1>4. CASE CommandFails(r)
      BY <1>4, FinishKeeps DEF CommandFails
<1>5. CASE CreateTag(r)
  <2>1. /\ step[r] = "tag" /\ step'[r] = "push"
        /\ localTag'[r] = head[r] /\ head[r] \in Commits
        /\ UNCHANGED <<call, head, report, published>> /\ UNCHANGED remote
        BY <1>0, <1>5 DEF CreateTag, GoOn, Types
  <2>2. Types'
        BY <1>0, <1>5, <2>1 DEF CreateTag, GoOn, Types, Steps, remote
  <2>3. Validated(r)'
        BY <1>0, <2>1 DEF Validated, Unresolved, Releasing, remote
  <2>4. \A q \in Releasers \ {r} :
          /\ step'[q] = step[q] /\ call'[q] = call[q]
          /\ head'[q] = head[q] /\ localTag'[q] = localTag[q]
          /\ report'[q] = report[q]
        BY <1>0, <1>5 DEF CreateTag, GoOn, Types
  <2> QED BY <2>1, <2>2, <2>3, <2>4, LocalStep
<1> QED BY <1>1, <1>2, <1>3, <1>4, <1>5

\* The push publishes what was validated, or nothing.
LEMMA PushKeeps ==
    ASSUME IInv, NEW r \in Releasers, Push(r)
    PROVE  IInv'
PROOF
<1>0. Types /\ Validated(r) /\ step[r] = "push"
      BY DEF IInv, Push
<1>1. CASE ~ (Descends(head[r], main) /\ tag = None)
      BY <1>1, FinishKeeps DEF Push, remote
<1>2. CASE Descends(head[r], main) /\ tag = None
  <2>1. PICK reported \in {call[r].target, None} : Finish(r, reported)
        BY <1>2 DEF Push
  <2>2. /\ head[r] \in Commits /\ localTag[r] \in Commits /\ call[r].moved \in BOOLEAN
        /\ call[r].target \in ci /\ call[r].target \in Commits /\ protected
        BY <1>0 DEF Types, Calls, Validated, Unresolved, Releasing
  <2>3. PICK release \in Releases :
           /\ release.by = r /\ release.moved = call[r].moved
           /\ release.commit = localTag[r] /\ release.main = head[r]
           /\ release = [by |-> r, commit |-> localTag[r], main |-> head[r],
                         moved |-> call[r].moved]
    <3> DEFINE pushed == [by |-> r, commit |-> localTag[r], main |-> head[r],
                          moved |-> call[r].moved]
    <3>1. pushed \in Releases
          BY <2>2 DEF Releases
    <3> QED BY <3>1
  <2>4. /\ main' = head[r] /\ tag' = localTag[r] /\ published' = published \cup {release}
        /\ UNCHANGED <<protected, ci, clones>>
        BY <1>2, <2>3 DEF Push, Publish
  <2>5. published = {}
    <3>1. \A p \in published : tag = p.commit /\ p.commit \in Commits
          BY <1>0 DEF IInv, Verified, Types, Releases
    <3> QED BY <1>2, <3>1, CommitsAssumption
  <2>6. published' = {release}
        BY <2>4, <2>5
  <2>7. Types'
        BY <1>0, <2>1, <2>2, <2>4, <2>6 DEF Types, Finish, Called, Calls, Steps, clones
  <2>8. Verified(release)'
    <3>1. ASSUME ~call[r].moved
          PROVE  /\ localTag[r] = call[r].target /\ head[r] = call[r].target
                 /\ call[r].target \in Versioned
          BY <1>0, <3>1 DEF Validated, Unresolved
    <3>2. Descends(main', head[r])
          BY <2>2, <2>4, DescendsFromItself
    <3> QED BY <2>2, <2>3, <2>4, <3>1, <3>2 DEF Verified
  <2>9. Kept' /\ \A p \in published' : Verified(p)'
        BY <2>2, <2>4, <2>6, <2>8 DEF Kept
  <2>10. ASSUME NEW q \in Releasers PROVE Validated(q)'
    <3>1. CASE q = r
      <4>1. step'[r] = "idle"
            BY <1>0, <2>1 DEF Finish, Types
      <4> QED BY <3>1, <4>1 DEF Validated, Unresolved, Releasing
    <3>2. CASE q # r
      <4>1. /\ step'[q] = step[q] /\ call'[q] = call[q]
            /\ head'[q] = head[q] /\ localTag'[q] = localTag[q]
            /\ protected' = protected /\ ci \subseteq ci' /\ Validated(q)
            BY <1>0, <2>1, <2>4, <3>2 DEF Finish, Types, clones, IInv
      <4> QED BY <1>0, <4>1, ValidatedStays
    <3> QED BY <3>1, <3>2
  <2>11. ASSUME NEW q \in Releasers PROVE Honest(q)'
    <3>1. CASE q = r
      <4>1. report'[r] \in {call[r].target, None}
            BY <1>0, <2>1 DEF Finish, Types
      <4>2. release \in published'
            BY <2>6
      <4>3. call[r].moved \/ localTag[r] = call[r].target
            BY <1>0 DEF Validated
      <4> QED BY <2>3, <3>1, <4>1, <4>2, <4>3, CommitsAssumption DEF Honest
    <3>2. CASE q # r
      <4>1. report'[q] = report[q] /\ Honest(q)
            BY <1>0, <2>1, <3>2 DEF Finish, Types, IInv
      <4> QED BY <2>5, <4>1 DEF Honest
    <3> QED BY <3>1, <3>2
  <2> QED BY <2>7, <2>9, <2>10, <2>11 DEF IInv
<1> QED BY <1>1, <1>2

\* Every step of a script keeps the invariant.
LEMMA ScriptKeeps ==
    ASSUME IInv, NEW r \in Releasers, Script(r)
    PROVE  IInv'
BY ChecksKeep, StepsKeep, PushKeeps DEF Script

-----------------------------------------------------------------------------
(* Everyone else                                                           *)

\* The developer of a clone.
LEMMA DeveloperKeeps ==
    ASSUME IInv, NEW r \in Releasers, MoveHead(r) \/ DeleteLocalTag(r)
    PROVE  IInv'
PROOF
<1>0. Types /\ Validated(r)
      BY DEF IInv
<1>1. CASE MoveHead(r)
  <2>1. PICK commit \in Commits : head' = [head EXCEPT ![r] = commit]
        BY <1>1 DEF MoveHead
  <2>2. /\ call'[r] = [call[r] EXCEPT !.moved = step[r] # "idle"]
        /\ UNCHANGED <<remote, localTag, step, report, published>> /\ call[r] \in Calls
        BY <1>0, <1>1 DEF MoveHead, Types
  <2>3. /\ call'[r] \in Calls /\ call'[r].target = call[r].target
        /\ call'[r].dryRun = call[r].dryRun /\ call'[r].moved = (step[r] # "idle")
        BY <2>2 DEF Calls
  <2>4. call' \in [Releasers -> Calls]
        BY <1>0, <1>1, <2>2, <2>3 DEF MoveHead, Types
  <2>5. Types'
        BY <1>0, <2>1, <2>2, <2>4 DEF Types, remote
  <2>6. Validated(r)'
        BY <1>0, <2>2, <2>3 DEF Validated, Unresolved, Releasing, remote
  <2>7. \A q \in Releasers \ {r} :
          /\ step'[q] = step[q] /\ call'[q] = call[q]
          /\ head'[q] = head[q] /\ localTag'[q] = localTag[q]
          /\ report'[q] = report[q]
        BY <1>0, <1>1, <2>1 DEF MoveHead, Types
  <2> QED BY <2>2, <2>5, <2>6, <2>7, LocalStep
<1>2. CASE DeleteLocalTag(r)
  <2>1. /\ step[r] = "idle" /\ localTag' = [localTag EXCEPT ![r] = None]
        /\ UNCHANGED <<head, step, call, report, published>> /\ UNCHANGED remote
        BY <1>2 DEF DeleteLocalTag, scripts
  <2>2. Types'
        BY <1>0, <2>1 DEF Types, remote
  <2>3. Validated(r)'
        BY <2>1 DEF Validated, Unresolved, Releasing
  <2>4. \A q \in Releasers \ {r} : localTag'[q] = localTag[q]
        BY <1>0, <2>1 DEF Types
  <2> QED BY <2>1, <2>2, <2>3, <2>4, LocalStep
<1> QED BY <1>1, <1>2

\* Pushes, tags by hand and CI.
LEMMA OthersKeep ==
    ASSUME IInv, OthersPush \/ OthersTag \/ WorkflowSucceeds
    PROVE  IInv'
PROOF
<1>0. Types
      BY DEF IInv
<1>1. CASE OthersPush
  <2>1. /\ Descends(main', main) /\ main' \in Commits
        /\ UNCHANGED <<tag, protected, ci, clones, scripts, published>>
        BY <1>1 DEF OthersPush
  <2>2. Types'
        BY <1>0, <2>1 DEF Types, clones, scripts
  <2>3. Kept' /\ \A p \in published' : Verified(p)'
        BY <2>1, <2>2, PublishedStays
  <2> QED BY <2>1, <2>2, <2>3, RemoteStep
<1>2. CASE OthersTag
  <2>1. /\ tag = None \/ ~protected
        /\ tag' \in Commits
        /\ UNCHANGED <<main, protected, ci, clones, scripts, published>>
        BY <1>2 DEF OthersTag
  <2>2. Types'
        BY <1>0, <2>1 DEF Types, clones, scripts
  <2>3. published = {}
    <3>1. \A p \in published : tag = p.commit /\ p.commit \in Commits /\ protected
          BY <1>0 DEF IInv, Verified, Types, Releases, Kept
    <3> QED BY <2>1, <3>1, CommitsAssumption
  <2>4. Kept' /\ \A p \in published' : Verified(p)'
        BY <2>1, <2>3 DEF Kept
  <2> QED BY <2>1, <2>2, <2>4, RemoteStep
<1>3. CASE WorkflowSucceeds
  <2>1. /\ ci' = ci \cup {main}
        /\ UNCHANGED <<main, tag, protected, clones, scripts, published>>
        BY <1>3 DEF WorkflowSucceeds
  <2>2. Types' /\ ci \subseteq ci'
        BY <1>0, <2>1 DEF Types, clones, scripts
  <2>3. Descends(main', main)
        BY <1>0, <2>1, DescendsFromItself DEF Types
  <2>4. Kept' /\ \A p \in published' : Verified(p)'
        BY <2>1, <2>2, <2>3, PublishedStays
  <2> QED BY <2>1, <2>2, <2>4, RemoteStep
<1> QED BY <1>1, <1>2, <1>3

-----------------------------------------------------------------------------
(* Theorems                                                                *)

\* Every reachable state satisfies the inductive invariant.
THEOREM Invariance == Spec => []IInv
PROOF
<1>1. ASSUME Init PROVE IInv
  <2>1. Types
        BY <1>1, CommitsAssumption DEF Init, Types, Called, Calls, Steps
  <2>2. \A r \in Releasers : Validated(r)
        BY <1>1 DEF Init, Validated, Unresolved, Releasing
  <2>3. \A r \in Releasers : Honest(r)
        BY <1>1, CommitsAssumption DEF Init, Honest
  <2>4. published = {}
        BY <1>1 DEF Init
  <2> QED BY <2>1, <2>2, <2>3, <2>4 DEF IInv, Kept
<1>2. ASSUME IInv, [Next]_vars PROVE IInv'
  <2>1. CASE UNCHANGED vars
    <3>1. Types'
          BY <1>2, <2>1 DEF vars, remote, clones, scripts, IInv, Types
    <3>2. Descends(main', main) /\ ci \subseteq ci'
          BY <1>2, <2>1, DescendsFromItself DEF vars, remote, IInv, Types
    <3>3. UNCHANGED <<tag, protected, clones, scripts, published>>
          BY <2>1 DEF vars, remote
    <3>4. Kept' /\ \A p \in published' : Verified(p)'
          BY <1>2, <3>1, <3>2, <3>3, PublishedStays
    <3> QED BY <1>2, <3>1, <3>2, <3>3, <3>4, RemoteStep
  <2> QED BY <1>2, <2>1, ScriptKeeps, DeveloperKeeps, OthersKeep DEF Next
<1> QED BY <1>1, <1>2, PTL DEF Spec

\* For any number of releasers, any history of commits, and whatever others push
\* and tag meanwhile: at most one release is published, it stays the tag, it is
\* the validated commit unless HEAD was moved under the script, and a reported
\* success is true.
THEOREM Released == Spec => []ReleaseIsVerified
PROOF
<1>1. ASSUME IInv PROVE ReleaseIsVerified
  <2>1. Cardinality(published) <= 1
    <3>1. CASE published = {}
          BY <3>1, FS_EmptySet
    <3>2. CASE published # {}
      <4>1. PICK p \in published : TRUE
            BY <3>2
      <4>2. published = {p}
            BY <1>1, <4>1 DEF IInv, Kept
      <4> QED BY <4>2, FS_Singleton
    <3> QED BY <3>1, <3>2
  <2> QED BY <1>1, <2>1 DEF IInv, Verified, Honest, ReleaseIsVerified
<1> QED BY <1>1, Invariance, PTL
=============================================================================
