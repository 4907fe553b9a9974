----------------------------- MODULE ReleaseTag ----------------------------
(***************************************************************************)
(* scripts/release_tag.py: releasers, each with a clone of its own,        *)
(* validate a commit step by step and publish the one release tag, while   *)
(* others push to main and to the tag, CI completes, and a developer moves *)
(* HEAD of the clone in use.  git and GitHub are external.                 *)
(***************************************************************************)
EXTENDS Naturals, FiniteSets

CONSTANTS
    Releasers,
    Commits,
    Ancestors,  \* of each commit, itself among them
    Root,       \* the commit everyone begins with
    Green,      \* commits whose tests pass
    Versioned,  \* commits whose versions match the tag
    None

ASSUME CommitsAssumption ==
    /\ Root \in Commits
    /\ Green \subseteq Commits
    /\ Versioned \subseteq Commits
    /\ Ancestors \in [Commits -> SUBSET Commits]
    /\ \A c \in Commits : c \in Ancestors[c]
    /\ \A c \in Commits : \A a \in Ancestors[c] : Ancestors[a] \subseteq Ancestors[c]
    /\ None \notin Commits

VARIABLES
    main, tag,   \* refs of the remote
    protected,   \* GitHub refuses to update or delete the tag
    ci,          \* commits with a successful test workflow
    head,        \* HEAD of each clone, whose worktree is clean
    localTag,    \* the tag in each clone
    step,        \* what each script does next
    call,        \* of the script that runs: [dryRun, target, moved]; target is the
                 \* head it validates, moved (history) whether HEAD was moved since
    report,      \* the target the last script has reported as published, if any
    published    \* history: commits tagged by the script, with main as it was left

remote == <<main, tag, protected, ci>>
clones == <<head, localTag>>
scripts == <<step, call, report>>
vars == <<remote, clones, scripts, published>>

Steps == {"idle", "resolve head", "compare main", "look for tag", "protection", "ci",
          "local checks", "tag", "push"}

Descends(commit, ancestor) == ancestor \in Ancestors[commit]

\* main() is called, with or without --push.
Called(dry) == [dryRun |-> dry, target |-> None, moved |-> FALSE]

Init ==
    /\ main = Root
    /\ tag = None
    /\ protected \in BOOLEAN
    /\ ci = {}
    /\ head = [r \in Releasers |-> Root]
    /\ localTag = [r \in Releasers |-> None]
    /\ step = [r \in Releasers |-> "idle"]
    /\ call = [r \in Releasers |-> Called(FALSE)]
    /\ report = [r \in Releasers |-> None]
    /\ published = {}

-----------------------------------------------------------------------------
(* The script                                                              *)

Finish(r, reported) ==
    /\ step' = [step EXCEPT ![r] = "idle"]
    /\ call' = [call EXCEPT ![r] = Called(FALSE)]
    /\ report' = [report EXCEPT ![r] = reported]

GoOn(r, next) ==
    /\ step' = [step EXCEPT ![r] = next]
    /\ UNCHANGED <<call, report>>

\* A check passes, or ends the script.
Check(r, at, condition, next) ==
    /\ step[r] = at
    /\ IF condition THEN GoOn(r, next) ELSE Finish(r, None)
    /\ UNCHANGED <<remote, clones, published>>

\* validate_versions reads the files of the worktree, which must be clean.
Begin(r) ==
    /\ step[r] = "idle"
    /\ head[r] \in Versioned
    /\ step' = [step EXCEPT ![r] = "resolve head"]
    /\ \E dry \in BOOLEAN : call' = [call EXCEPT ![r] = Called(dry)]
    /\ UNCHANGED <<remote, clones, report, published>>

\* git rev-parse HEAD
ResolveHead(r) ==
    /\ step[r] = "resolve head"
    /\ step' = [step EXCEPT ![r] = "compare main"]
    /\ call' = [call EXCEPT ![r].target = head[r]]
    /\ UNCHANGED <<remote, clones, report, published>>

\* Slip for Protection: the ruleset is not looked up.
NoProtection(r) ==
    Check(r, "protection", TRUE, IF call[r].dryRun THEN "local checks" ELSE "ci")

Protection(r) ==
    Check(r, "protection", protected, IF call[r].dryRun THEN "local checks" ELSE "ci")

\* run_local_checks reads the worktree: versions and tests.
LocalChecks(r) ==
    /\ step[r] = "local checks"
    /\ CASE ~(head[r] \in Versioned \cap Green) -> Finish(r, None)
         [] head[r] \in Versioned \cap Green /\ call[r].dryRun -> Finish(r, None)
         [] OTHER -> GoOn(r, "tag")
    /\ UNCHANGED <<remote, clones, published>>

\* git and gh fail for reasons of their own: the worktree is not clean, the
\* branch is another one, the network is down.
CommandFails(r) ==
    /\ step[r] # "idle"
    /\ Finish(r, None)
    /\ UNCHANGED <<remote, clones, published>>

\* git tag -a: it tags HEAD, whatever was validated.
CreateTag(r) ==
    /\ step[r] = "tag"
    /\ localTag[r] = None
    /\ localTag' = [localTag EXCEPT ![r] = head[r]]
    /\ GoOn(r, "push")
    /\ UNCHANGED <<remote, head, published>>

Publish(r) ==
    /\ main' = IF Descends(head[r], main) THEN head[r] ELSE main
    /\ tag' = localTag[r]
    /\ published' = published \cup {[by |-> r, commit |-> tag', main |-> main',
                                     moved |-> call[r].moved]}

\* Slip for Push: without --atomic.
PushEachRef(r) ==
    /\ step[r] = "push"
    /\ IF tag = None
       THEN Publish(r) /\ Finish(r, IF Descends(head[r], main) THEN call[r].target ELSE None)
       ELSE Finish(r, None) /\ UNCHANGED <<main, tag, published>>
    /\ UNCHANGED <<protected, ci, clones>>

\* git push --atomic: main goes forward and the tag is new, or nothing changes.
\* The answer may be lost.
Push(r) ==
    /\ step[r] = "push"
    /\ IF Descends(head[r], main) /\ tag = None
       THEN /\ Publish(r)
            /\ \E reported \in {call[r].target, None} : Finish(r, reported)
       ELSE Finish(r, None) /\ UNCHANGED <<main, tag, published>>
    /\ UNCHANGED <<protected, ci, clones>>

Script(r) ==
    \/ Begin(r)
    \/ ResolveHead(r)
    \/ Check(r, "compare main", call[r].target = main, "look for tag")
    \/ Check(r, "look for tag", localTag[r] = None /\ tag = None, "protection")
    \/ Protection(r)
    \/ Check(r, "ci", call[r].target \in ci, "local checks")
    \/ LocalChecks(r)
    \/ CommandFails(r)
    \/ CreateTag(r)
    \/ Push(r)

-----------------------------------------------------------------------------
(* Everyone else                                                           *)

\* The developer pulls, commits or checks out another commit.
MoveHead(r) ==
    /\ \E commit \in Commits \ {head[r]} :
          /\ Descends(commit, head[r]) \/ Descends(main, commit)
          /\ head' = [head EXCEPT ![r] = commit]
    /\ call' = [call EXCEPT ![r].moved = step[r] # "idle"]
    /\ UNCHANGED <<remote, localTag, step, report, published>>

\* git tag -d, so that a release that failed can be tried again.
DeleteLocalTag(r) ==
    /\ step[r] = "idle"
    /\ localTag' = [localTag EXCEPT ![r] = None]
    /\ UNCHANGED <<remote, head, scripts, published>>

OthersPush ==
    /\ \E commit \in Commits \ {main} : Descends(commit, main) /\ main' = commit
    /\ UNCHANGED <<tag, protected, ci, clones, scripts, published>>

\* Somebody pushes a tag by hand, by force where GitHub permits.
OthersTag ==
    /\ tag = None \/ ~protected
    /\ \E commit \in Commits : Descends(main, commit) /\ tag' = commit
    /\ UNCHANGED <<main, protected, ci, clones, scripts, published>>

WorkflowSucceeds ==
    /\ main \in Green
    /\ ci' = ci \cup {main}
    /\ UNCHANGED <<main, tag, protected, clones, scripts, published>>

Next ==
    \/ \E r \in Releasers : Script(r) \/ MoveHead(r) \/ DeleteLocalTag(r)
    \/ OthersPush \/ OthersTag \/ WorkflowSucceeds

Spec == Init /\ [][Next]_vars

-----------------------------------------------------------------------------
(* Properties                                                              *)

\* README.md 198: what the script publishes stays the tag, and is published
\* once.  If HEAD stayed where it was it is the validated commit, with
\* its version and a successful workflow, main was left unchanged, and a script
\* that reports success has published it.  (If HEAD moves, git tags and pushes
\* what was never validated.)
ReleaseIsVerified ==
    /\ Cardinality(published) <= 1
    /\ \A p \in published :
         /\ tag = p.commit
         /\ ~p.moved =>
              p.main = p.commit /\ Descends(main, p.commit) /\ p.commit \in Versioned \cap ci
    /\ \A r \in Releasers :
         report[r] \in Commits =>
             \E p \in published : p.by = r /\ (p.moved \/ p.commit = report[r])
=============================================================================
