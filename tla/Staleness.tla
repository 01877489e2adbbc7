------------------------------ MODULE Staleness ------------------------------
(***************************************************************************)
(* What the planner, the orchestrator and the cache agree on: the build    *)
(* event a cache keeps per action, and the rule that turns that event into *)
(* a verdict (repolith-core, types.rs and plan.rs).                        *)
(*                                                                         *)
(* An action id stands for its rank in the string order `sort_by` uses, so *)
(* ids are numbers.  A content hash is an opaque value: only equality of   *)
(* hashes is ever tested by the code.                                      *)
(***************************************************************************)
EXTENDS Naturals, Sequences

CONSTANTS Actions,  \* ids of the registered actions
          Hashes    \* values `input_hash` can return

ASSUME ActionsAreIds == Actions \subseteq Nat

-----------------------------------------------------------------------------
(* BuildEvent: the error text, the output hash and the duration are left   *)
(* out, no verdict depends on them.                                        *)

NoEvent    == [kind |-> "none"]
Success(h) == [kind |-> "success", input |-> h]
Failed(h)  == [kind |-> "failed", input |-> h]

BuildEvent == [kind : {"success", "failed"}, input : Hashes]
LastBuild  == BuildEvent \cup {NoEvent}

\* Slip: INSERT OR IGNORE, the event already there wins.
UpsertOrIgnore(cache, batch) ==
    [a \in Actions |-> IF cache[a] = NoEvent THEN batch[a] ELSE cache[a]]

\* The cache after a batch: the batch's event where there is one.
Upsert(cache, batch) ==
    [a \in Actions |-> IF batch[a] # NoEvent THEN batch[a] ELSE cache[a]]

-----------------------------------------------------------------------------
(* ChangeReason, with `UpToDate` for the `None` of `classify`.             *)

UpToDate         == [why |-> "UpToDate"]
Because(w)       == [why |-> w]
UpstreamMoved(d) == [why |-> "UpstreamMoved", dep |-> d]

ChangeReason ==
    [why : {"Forced", "NoCachedBuild", "PreviousFailure",
            "InputHashChanged", "OutputMissing"}]
      \cup [why : {"UpstreamMoved"}, dep : Actions]

\* Dependencies are a Vec: the first stale one, in declaration order, is named.
FirstStale(depsOfA, stale) ==
    LET hits == {i \in DOMAIN depsOfA : depsOfA[i] \in stale}
    IN  depsOfA[CHOOSE i \in hits : \A j \in hits : i <= j]

MentionsStale(depsOfA, stale) == \E i \in DOMAIN depsOfA : depsOfA[i] \in stale

\* Slip: an action is judged by its own input and artifact alone.
VerdictWithoutUpstream(depsOfA, now, last, stale, present) ==
    IF last.input # now THEN Because("InputHashChanged")
    ELSE IF ~present    THEN Because("OutputMissing")
    ELSE UpToDate

\* Slip: the artifact is not looked at.
VerdictWithoutArtifact(depsOfA, now, last, stale, present) ==
    IF last.input # now                   THEN Because("InputHashChanged")
    ELSE IF MentionsStale(depsOfA, stale) THEN UpstreamMoved(FirstStale(depsOfA, stale))
    ELSE UpToDate

\* Slip: the cascade is consulted before the action's own input.
VerdictUpstreamFirst(depsOfA, now, last, stale, present) ==
    IF MentionsStale(depsOfA, stale) THEN UpstreamMoved(FirstStale(depsOfA, stale))
    ELSE IF last.input # now         THEN Because("InputHashChanged")
    ELSE IF ~present                 THEN Because("OutputMissing")
    ELSE UpToDate

\* What a recorded success comes to.
SuccessVerdict(depsOfA, now, last, stale, present) ==
    IF last.input # now                   THEN Because("InputHashChanged")
    ELSE IF ~present                      THEN Because("OutputMissing")
    ELSE IF MentionsStale(depsOfA, stale) THEN UpstreamMoved(FirstStale(depsOfA, stale))
    ELSE UpToDate

Classify(depsOfA, now, last, stale, present, isForced) ==
    CASE isForced                               -> Because("Forced")
      [] ~isForced /\ last = NoEvent            -> Because("NoCachedBuild")
      [] ~isForced /\ last.kind = "failed"      -> Because("PreviousFailure")
      [] ~isForced /\ last.kind = "success" ->
           SuccessVerdict(depsOfA, now, last, stale, present)

\* The stale set the verdicts add up to: the set that is the set of actions
\* classified as stale given itself.  On an acyclic graph there is exactly one.
IsStaleSet(S, deps, now, cache, present, forced) ==
    S = {a \in Actions : Classify(deps[a], now[a], cache[a], S, present[a],
                                  a \in forced) # UpToDate}

StaleSet(deps, now, cache, present, forced) ==
    CHOOSE S \in SUBSET Actions : IsStaleSet(S, deps, now, cache, present, forced)
=============================================================================
