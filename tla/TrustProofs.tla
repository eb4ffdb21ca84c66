----------------------------- MODULE TrustProofs -----------------------------
(***************************************************************************)
(* What holds of the trust service for any agents, scopes, policy files,   *)
(* evaluators and reviewers.                                               *)
(***************************************************************************)
EXTENDS TrustService, SequenceTheorems, TLAPS

Agent == [tier : 1..3, scope : Scopes]
Request == [name : Names, status : {"pending", "approved", "denied"}]
Entry == [name : Names, decision : Decisions]

\* The calls under way, one set of records for each kind
Evaluating == [pc : {"policy", "record"}, name : Names, agent : Agent \cup {None},
               cap : Caps, repo : Repos, decision : Decisions]
Setting == [pc : {"set"}, todo : Seq([tier : 1..3, policy : Policies]) \ {<<>>}]
Reviewing == [pc : {"review"}, id : Nat]

ValidFile(config) == \A i \in DOMAIN config : Valid(config[i].tier)

\* What an ApplyPolicies has still to set comes from a file that was accepted.
FromValidFiles(f) ==
  \A i \in DOMAIN f.todo : \E config \in Configs :
    ValidFile(config) /\ f.todo[i] \in Range(config)

\* An evaluation that has found its agent reads a policy; one that has allowed
\* something found the repository in the agent's scope.
InScope(f) ==
  /\ f.pc = "policy" => f.agent # None
  /\ f.pc = "record" /\ f.decision = "allow" =>
       /\ f.agent # None
       /\ RepoAllowed(f.agent.scope, f.cap, f.repo)

\* ids: the requests there are
FrameOK(f, ids) ==
  \/ f = None
  \/ f \in Evaluating /\ InScope(f)
  \/ f \in Setting /\ FromValidFiles(f)
  \/ f \in Reviewing /\ f.id \in ids

IInv ==
  /\ agents \in [Names -> Agent \cup {None}]
  /\ policies \in [1..3 -> Policies]
  /\ requests \in Seq(Request)
  /\ log \in Seq(Entry)
  /\ DOMAIN frame = Procs
  /\ \A p \in Procs : FrameOK(frame[p], DOMAIN requests)
  /\ RejectedFileChangesNothing

LEMMA IInvImpliesTypeOK == IInv => TypeOK
<1> SUFFICES ASSUME IInv PROVE TypeOK
  OBVIOUS
<1>1. \A i \in DOMAIN requests : requests[i].status \in {"pending", "approved", "denied"}
  <2>1. \A i \in DOMAIN requests : requests[i] \in Request
    BY DEF IInv
  <2> QED BY <2>1 DEF Request
<1>2. \A i \in DOMAIN log : log[i].decision \in Decisions
  <2>1. \A i \in DOMAIN log : log[i] \in Entry
    BY DEF IInv
  <2> QED BY <2>1 DEF Entry
<1>3. \A p \in Procs : At(p, "review") => frame[p].id \in DOMAIN requests
  BY DEF IInv, FrameOK, At, Evaluating, Setting, Reviewing
<1> QED BY <1>1, <1>2, <1>3 DEF IInv, TypeOK, Agent

\* The frame at each program counter
LEMMA FrameAt ==
  ASSUME IInv, NEW p \in Procs
  PROVE  /\ At(p, "policy") \/ At(p, "record") =>
              frame[p] \in Evaluating /\ InScope(frame[p])
         /\ At(p, "set") => frame[p] \in Setting /\ FromValidFiles(frame[p])
         /\ At(p, "review") => frame[p] \in Reviewing /\ frame[p].id \in DOMAIN requests
BY DEF IInv, FrameOK, At, Evaluating, Setting, Reviewing
-----------------------------------------------------------------------------
\* A step of one goroutine leaves the calls of the others as they are.
LEMMA OthersKeepTheirFrames ==
  ASSUME IInv, NEW p \in Procs, NEW f, frame' = [frame EXCEPT ![p] = f],
         FrameOK(f, DOMAIN requests'), DOMAIN requests \subseteq DOMAIN requests'
  PROVE  DOMAIN frame' = Procs /\ \A q \in Procs : FrameOK(frame'[q], DOMAIN requests')
<1>1. DOMAIN frame' = Procs
  BY DEF IInv
<1>2. ASSUME NEW q \in Procs PROVE FrameOK(frame'[q], DOMAIN requests')
  <2>1. CASE q = p
    BY <2>1 DEF IInv
  <2>2. CASE q # p
    BY <2>2 DEF IInv, FrameOK
  <2> QED BY <2>1, <2>2
<1> QED BY <1>1, <1>2

LEMMA InitInv == Init => IInv
<1> SUFFICES ASSUME Init PROVE IInv
  OBVIOUS
<1>1. policies \in [1..3 -> Policies]
  BY DEF Init, Defaults, Policies, Policy, Everything, RepoScoped
<1> QED BY <1>1 DEF Init, IInv, FrameOK, RejectedFileChangesNothing

LEMMA EvaluateInv ==
  ASSUME IInv, NEW p \in Evaluators, NEW n \in Names, NEW cap \in Caps, NEW repo \in Repos,
         Evaluate(p, n, cap, repo)
  PROVE  IInv'
<1> DEFINE f == Evaluation(IF agents[n] = None THEN "record" ELSE "policy", n, cap, repo)
<1>1. p \in Procs /\ frame' = [frame EXCEPT ![p] = f]
  BY TrustAssumption DEF Evaluate, Do
<1>2. f \in Evaluating /\ InScope(f)
  BY DEF Evaluation, Evaluating, InScope, IInv, Decisions
<1>3. FrameOK(f, DOMAIN requests')
  BY <1>2 DEF FrameOK
<1> HIDE DEF f
<1> QED BY <1>1, <1>3, OthersKeepTheirFrames DEF Evaluate, IInv, RejectedFileChangesNothing

\* Decide allows nothing outside of the agent's scope.
LEMMA DecideInScope ==
  ASSUME NEW agent, NEW cap, NEW repo
  PROVE  /\ Decide(agent, cap, repo) \in Decisions
         /\ Decide(agent, cap, repo) = "allow" => RepoAllowed(agent.scope, cap, repo)
BY DEF Decide, Decisions

LEMMA ReadPolicyInv ==
  ASSUME IInv, NEW p \in Procs, ReadPolicy(p)
  PROVE  IInv'
<1> DEFINE d == Decide(frame[p].agent, frame[p].cap, frame[p].repo)
           f == [frame[p] EXCEPT !.pc = "record", !.decision = d]
<1>1. frame' = [frame EXCEPT ![p] = f]
  BY DEF ReadPolicy, Do
<1>2. frame[p] \in Evaluating /\ frame[p].agent # None
  BY FrameAt DEF ReadPolicy, InScope, At
<1>3. d \in Decisions /\ (d = "allow" => RepoAllowed(frame[p].agent.scope, frame[p].cap, frame[p].repo))
  BY DecideInScope
<1> HIDE DEF d
<1>4. f \in Evaluating /\ InScope(f)
  BY <1>2, <1>3 DEF Evaluating, InScope
<1>5. FrameOK(f, DOMAIN requests')
  BY <1>4 DEF FrameOK
<1> HIDE DEF f
<1> QED BY <1>1, <1>5, OthersKeepTheirFrames DEF ReadPolicy, IInv, RejectedFileChangesNothing

LEMMA RecordInv ==
  ASSUME IInv, NEW p \in Procs, Record(p)
  PROVE  IInv'
<1>1. frame[p] \in Evaluating
  BY FrameAt DEF Record
<1>2. [name |-> frame[p].name, decision |-> frame[p].decision] \in Entry
  BY <1>1 DEF Evaluating, Entry
<1>3. log' \in Seq(Entry)
  BY <1>2 DEF Record, IInv
<1>4. FrameOK(None, DOMAIN requests') /\ frame' = [frame EXCEPT ![p] = None]
  BY DEF FrameOK, Record, Return
<1> QED BY <1>3, <1>4, OthersKeepTheirFrames DEF Record, IInv, RejectedFileChangesNothing

\* Two facts about sequences
LEMMA ElementsAre ==
  ASSUME NEW S, NEW T, NEW s \in Seq(S)
  PROVE  /\ \A i \in DOMAIN s : s[i] \in S
         /\ (\A i \in DOMAIN s : s[i] \in T) => s \in Seq(T)
OBVIOUS

LEMMA HeadAndTail ==
  ASSUME NEW S, NEW s \in Seq(S), s # <<>>
  PROVE  /\ Head(s) = s[1] /\ 1 \in DOMAIN s /\ Head(s) \in S
         /\ Len(s) # 1 => /\ Tail(s) \in Seq(S) \ {<<>>}
                           /\ \A i \in DOMAIN Tail(s) : i + 1 \in DOMAIN s /\ Tail(s)[i] = s[i + 1]
<1>1. Len(s) \in Nat \ {0} /\ DOMAIN s = 1..Len(s)
  BY EmptySeq, LenProperties
<1>2. Head(s) = s[1] /\ 1 \in DOMAIN s /\ Head(s) \in S
  BY <1>1, HeadTailProperties
<1>3. /\ Tail(s) \in Seq(S) /\ Len(Tail(s)) = Len(s) - 1
      /\ \A i \in 1..Len(Tail(s)) : Tail(s)[i] = s[i + 1]
  BY HeadTailProperties
<1>4. DOMAIN Tail(s) = 1..(Len(s) - 1)
  BY <1>3, LenProperties
<1>5. Len(s) # 1 => Tail(s) # <<>>
  BY <1>1, <1>3, EmptySeq
<1> QED BY <1>1, <1>2, <1>3, <1>4, <1>5

LEMMA ApplyPoliciesInv ==
  ASSUME IInv, NEW p \in Procs, NEW config \in Configs, ApplyPolicies(p, config)
  PROVE  IInv'
<1> DEFINE f == [pc |-> "set", todo |-> config]
<1>1. config \in Seq([tier : 1..3, policy : Policies]) \ {<<>>}
  <2>1. config \in Seq([tier : Int, policy : Policies]) \ {<<>>}
    BY TrustAssumption
  <2>2. ASSUME NEW i \in DOMAIN config PROVE config[i] \in [tier : 1..3, policy : Policies]
    <3>1. config[i] \in [tier : Int, policy : Policies]
      BY <2>1, ElementsAre
    <3> QED BY <3>1 DEF ApplyPolicies, Valid
  <2> QED BY <2>1, <2>2, ElementsAre
<1>2. FromValidFiles(f)
  BY DEF FromValidFiles, ApplyPolicies, ValidFile, Range
<1>3. FrameOK(f, DOMAIN requests')
  BY <1>1, <1>2 DEF FrameOK, Setting
<1>4. frame' = [frame EXCEPT ![p] = f]
  BY DEF ApplyPolicies, Do
<1> HIDE DEF f
<1> QED BY <1>3, <1>4, OthersKeepTheirFrames DEF ApplyPolicies, IInv, RejectedFileChangesNothing

LEMMA SetPolicyInv ==
  ASSUME IInv, NEW p \in Procs, SetPolicy(p)
  PROVE  IInv'
<1> DEFINE todo == frame[p].todo
           c == Head(todo)
<1>1. frame[p] \in Setting /\ FromValidFiles(frame[p])
  BY FrameAt DEF SetPolicy
<1>2. todo \in Seq([tier : 1..3, policy : Policies]) /\ todo # <<>>
  BY <1>1 DEF Setting
<1>3. c = todo[1] /\ 1 \in DOMAIN todo /\ c \in [tier : 1..3, policy : Policies]
  BY <1>2, HeadAndTail
<1>4. PICK config \in Configs : ValidFile(config) /\ c \in Range(config)
  BY <1>1, <1>3 DEF FromValidFiles
<1>5. policies' = [policies EXCEPT ![c.tier] = c.policy]
  BY DEF SetPolicy
<1>6. policies' \in [1..3 -> Policies]
  BY <1>3, <1>5 DEF IInv
<1>7. RejectedFileChangesNothing'
  <2> SUFFICES ASSUME NEW t \in 1..3
               PROVE  \/ policies'[t] = Defaults[t]
                      \/ \E x \in Configs : /\ ValidFile(x)
                                            /\ [tier |-> t, policy |-> policies'[t]] \in Range(x)
    BY DEF RejectedFileChangesNothing, ValidFile
  <2>1. CASE t = c.tier
    <3>1. [tier |-> t, policy |-> policies'[t]] = c
      BY <1>3, <1>5, <2>1 DEF IInv
    <3> QED BY <1>4, <3>1
  <2>2. CASE t # c.tier
    <3>1. policies'[t] = policies[t]
      BY <1>3, <1>5, <2>2 DEF IInv
    <3> QED BY <3>1 DEF IInv, RejectedFileChangesNothing, ValidFile
  <2> QED BY <2>1, <2>2
<1>8. PICK f : frame' = [frame EXCEPT ![p] = f] /\ FrameOK(f, DOMAIN requests')
  <2>1. CASE Len(todo) = 1
    BY <2>1 DEF SetPolicy, Return, FrameOK
  <2>2. CASE Len(todo) # 1
    <3> DEFINE g == [frame[p] EXCEPT !.todo = Tail(todo)]
    <3>1. /\ Tail(todo) \in Seq([tier : 1..3, policy : Policies]) \ {<<>>}
          /\ \A i \in DOMAIN Tail(todo) : i + 1 \in DOMAIN todo /\ Tail(todo)[i] = todo[i + 1]
      BY <1>2, <2>2, HeadAndTail
    <3>2. g \in Setting /\ g.todo = Tail(todo)
      BY <1>1, <3>1 DEF Setting
    <3>3. FromValidFiles(g)
      BY <1>1, <3>1, <3>2 DEF FromValidFiles
    <3>4. frame' = [frame EXCEPT ![p] = g]
      BY <2>2 DEF SetPolicy
    <3> QED BY <3>2, <3>3, <3>4 DEF FrameOK
  <2> QED BY <2>1, <2>2
<1> QED BY <1>6, <1>7, <1>8, OthersKeepTheirFrames DEF SetPolicy, IInv

LEMMA SubmitInv ==
  ASSUME IInv, NEW n \in Names, Submit(n)
  PROVE  IInv' /\ \A id \in DOMAIN requests : id \in DOMAIN requests' /\ requests'[id] = requests[id]
<1>1. [name |-> n, status |-> "pending"] \in Request
  BY DEF Request
<1>2. /\ requests' \in Seq(Request)
      /\ \A id \in DOMAIN requests : id \in DOMAIN requests' /\ requests'[id] = requests[id]
  BY <1>1 DEF Submit, IInv
<1>3. \A p \in Procs : FrameOK(frame[p], DOMAIN requests')
  BY <1>2 DEF IInv, FrameOK
<1> QED BY <1>2, <1>3 DEF Submit, IInv, RejectedFileChangesNothing

LEMMA PendingInv ==
  ASSUME IInv, NEW p \in Procs, Pending(p)
  PROVE  IInv'
<1>1. PICK id \in DOMAIN requests : frame' = [frame EXCEPT ![p] = [pc |-> "review", id |-> id]]
  BY DEF Pending, Do
<1>2. id \in Nat
  BY DEF IInv
<1>3. FrameOK([pc |-> "review", id |-> id], DOMAIN requests')
  BY <1>2 DEF FrameOK, Reviewing, Pending
<1> QED BY <1>1, <1>3, OthersKeepTheirFrames DEF Pending, IInv, RejectedFileChangesNothing

\* A review changes at most the status of one request, and that only from pending.
LEMMA ReviewInv ==
  ASSUME IInv, NEW p \in Procs, NEW verdict \in {"approved", "denied"}, Review(p, verdict)
  PROVE  /\ IInv'
         /\ \A id \in DOMAIN requests :
              /\ id \in DOMAIN requests'
              /\ requests[id].status # "pending" => requests'[id] = requests[id]
<1> DEFINE i == frame[p].id
           r == [requests[i] EXCEPT !.status = verdict]
<1>1. i \in DOMAIN requests
  BY FrameAt DEF Review
<1>2. requests[i] \in Request
  BY <1>1 DEF IInv
<1>3. r \in Request
  BY <1>2 DEF Request
<1> HIDE DEF r
<1>4. requests' = IF requests[i].status = "pending" THEN [requests EXCEPT ![i] = r] ELSE requests
  BY DEF Review, r
<1>5. requests' \in Seq(Request) /\ DOMAIN requests' = DOMAIN requests
  BY <1>1, <1>3, <1>4 DEF IInv
<1>6. \A id \in DOMAIN requests : requests[id].status # "pending" => requests'[id] = requests[id]
  BY <1>1, <1>4, <1>5 DEF IInv
<1>7. FrameOK(None, DOMAIN requests') /\ frame' = [frame EXCEPT ![p] = None]
  BY DEF FrameOK, Review, Return
<1> QED BY <1>5, <1>6, <1>7, OthersKeepTheirFrames DEF Review, IInv, RejectedFileChangesNothing

LEMMA IInvStep == IInv /\ [Next]_vars => IInv'
<1> SUFFICES ASSUME IInv, [Next]_vars PROVE IInv'
  OBVIOUS
<1>1. ASSUME NEW n \in Names, NEW tier \in 0..3, NEW scope \in Scopes, Register(n, tier, scope)
      PROVE  IInv'
  <2>1. [tier |-> tier, scope |-> scope] \in Agent
    BY <1>1 DEF Register, Valid, Agent
  <2> QED BY <1>1, <2>1 DEF Register, IInv, RejectedFileChangesNothing
<1>2. ASSUME NEW n \in Names, RemoveAgent(n)
      PROVE  IInv'
  BY <1>2 DEF RemoveAgent, IInv, RejectedFileChangesNothing
<1>3. CASE Restart
  <2>1. policies' = Defaults /\ Defaults \in [1..3 -> Policies]
    BY <1>3 DEF Restart, Defaults, Policies, Policy, Everything, RepoScoped
  <2> QED BY <1>3, <2>1 DEF Restart, IInv, FrameOK, RejectedFileChangesNothing
<1>4. CASE UNCHANGED vars
  BY <1>4 DEF vars, IInv, RejectedFileChangesNothing
<1> QED
  BY <1>1, <1>2, <1>3, <1>4, EvaluateInv, ReadPolicyInv, RecordInv, ApplyPoliciesInv,
     SetPolicyInv, SubmitInv, PendingInv, ReviewInv DEF Next

LEMMA IInvHolds == Spec => []IInv
BY InitInv, IInvStep, PTL DEF Spec

\* The registry, the policies, the queue and the log are well typed, and every
\* review is of a request that exists (approval.go:114-153).
THEOREM TrustTypeCorrect == Spec => []TypeOK
BY IInvHolds, IInvImpliesTypeOK, PTL

\* A policy file with an invalid tier has no effect, whatever applies, evaluates
\* or stops meanwhile (convertPolicies before the first SetPolicy, config.go).
THEOREM RejectedFilesChangeNothing == Spec => []RejectedFileChangesNothing
<1>1. IInv => RejectedFileChangesNothing
  BY DEF IInv
<1> QED BY <1>1, IInvHolds, PTL
-----------------------------------------------------------------------------
\* matchScope never covers more than the documented patterns do (policy.go).
LEMMA MatchesAreCovered ==
  ASSUME NEW pattern \in Seq(STRING), NEW repo \in Seq(STRING), MatchScope(pattern, repo)
  PROVE  Covers(pattern, repo)
<1>1. CASE pattern = repo
  BY <1>1 DEF Covers
<1>2. CASE Len(pattern) > 1 /\ IsStrictPrefix(Front(pattern), repo)
  <2> DEFINE i == Len(pattern) - 1
  <2>0. Len(pattern) \in Nat /\ Len(repo) \in Nat
    BY LenProperties
  <2>1. Front(pattern) \in Seq(STRING) /\ Len(Front(pattern)) = i /\ i \in Nat \ {0}
    <3>0. Front(pattern) = SubSeq(pattern, 1, i)
      BY Zenon DEF Front
    <3>1. Len(pattern) > 1
      BY <1>2
    <3>2. \A m \in Nat : m > 1 => m - 1 \in Nat \ {0} /\ 1..(m - 1) \subseteq 1..m
      OBVIOUS
    <3>3. i \in Nat \ {0} /\ 1..i \subseteq 1..Len(pattern)
      BY <2>0, <3>1, <3>2, Zenon
    <3>4. \A j \in 1..i : pattern[j] \in STRING
      BY <3>3, ElementOfSeq, Zenon
    <3> HIDE DEF i
    <3>5. /\ SubSeq(pattern, 1, i) \in Seq(STRING)
          /\ Len(SubSeq(pattern, 1, i)) = IF 1 <= i THEN i - 1 + 1 ELSE 0
      BY <3>3, <3>4, SubSeqProperties
    <3> QED BY <3>0, <3>3, <3>5
  <2>2. i <= Len(repo) /\ SubSeq(repo, 1, i) = Front(pattern)
    BY <1>2, <2>1, SubSeqFull DEF IsStrictPrefix, IsPrefix
  <2>3. i # Len(repo)
    BY <1>2, <2>1, <2>2, SubSeqFull DEF IsStrictPrefix
  <2>4. i \in 1..(Len(repo) - 1) /\ i + 1 = Len(pattern)
    BY <2>0, <2>1, <2>2, <2>3
  <2>5. CASE Last(pattern) = "**" /\ SubSeq(repo, Len(pattern), Len(repo)) # <<"">>
    <3>1. SubSeq(repo, i + 1, Len(repo)) # <<"">>
      BY <2>4, <2>5
    <3> HIDE DEF i
    <3> QED BY <2>2, <2>4, <2>5, <3>1 DEF Covers
  <2>6. CASE Last(pattern) = "*" /\ Len(repo) = Len(pattern) /\ Last(repo) # ""
    <3>1. Len(repo) \in 1..Len(repo) /\ repo[Len(repo)] \in STRING
      BY <2>0, <2>4, ElementOfSeq
    <3>2. SubSeq(repo, Len(repo), Len(repo))[1] = Last(repo)
      BY <2>0, <3>1, SubSeqProperties DEF Last
    <3>3. SubSeq(repo, Len(repo), Len(repo)) # <<"">>
      <4>1. <<"">>[1] = ""
        OBVIOUS
      <4> QED BY <2>6, <3>2, <4>1
    <3>4. i = Len(repo) - 1 /\ i + 1 = Len(repo)
      BY <2>4, <2>6
    <3> HIDE DEF i
    <3> QED BY <2>2, <2>4, <2>6, <3>3, <3>4 DEF Covers
  <2> QED BY <1>2, <2>5, <2>6, <1>1 DEF MatchScope, Covers
<1> QED BY <1>1, <1>2 DEF MatchScope

LEMMA IInvImpliesAllowedInScope == IInv => AllowedInScope
<1> SUFFICES ASSUME IInv, NEW p \in Procs, At(p, "record"), frame[p].decision = "allow",
                    frame[p].cap \in RepoScoped, ~Unscoped(frame[p].agent)
             PROVE  \E pattern \in frame[p].agent.scope : Covers(pattern, frame[p].repo)
  BY DEF AllowedInScope
<1>1. frame[p] \in Evaluating /\ InScope(frame[p])
  BY FrameAt
<1>2. frame[p].agent \in Agent /\ RepoAllowed(frame[p].agent.scope, frame[p].cap, frame[p].repo)
  BY <1>1 DEF InScope, Evaluating, At
<1>3. PICK pattern \in frame[p].agent.scope : MatchScope(pattern, frame[p].repo)
  BY <1>2 DEF RepoAllowed, Unscoped
<1>4. pattern \in Seq(STRING) /\ frame[p].repo \in Seq(STRING)
  BY <1>1, <1>2, <1>3, TrustAssumption DEF Evaluating, Agent
<1> QED BY <1>3, <1>4, MatchesAreCovered

\* No evaluation of an agent that has scopes, of whatever tier, allows a repo-scoped
\* capability on a repository that none of them covers, whatever happens to the
\* agent and the policies meanwhile (Evaluate, repoAllowed, matchScope).  An agent
\* without scopes is not limited in the code, nor here (policy.go:130).
THEOREM AllowedStaysInScope == Spec => []AllowedInScope
BY IInvHolds, IInvImpliesAllowedInScope, PTL
-----------------------------------------------------------------------------
\* The first verdict on a request stands until the program stops, whoever else
\* reviews it (Approve and Deny look again under the lock, approval.go:114-153).
THEOREM FirstVerdictHolds == Spec => FirstVerdictStands
<1> DEFINE Kept == Restart \/ \A id \in DOMAIN requests :
                     /\ id \in DOMAIN requests'
                     /\ requests[id].status # "pending" => requests'[id] = requests[id]
<1>1. IInv /\ [Next]_vars => [Kept]_vars
  <2> SUFFICES ASSUME IInv, Next PROVE Kept
    OBVIOUS
  <2>1. ASSUME NEW n \in Names, Submit(n) PROVE Kept
    BY <2>1, SubmitInv
  <2>2. ASSUME NEW p \in Procs, NEW verdict \in {"approved", "denied"}, Review(p, verdict)
        PROVE  Kept
    BY <2>2, ReviewInv
  <2>3. CASE UNCHANGED requests
    BY <2>3
  <2>4. Restart \/ UNCHANGED requests \/ (\E n \in Names : Submit(n))
        \/ \E p \in Procs, verdict \in {"approved", "denied"} : Review(p, verdict)
    BY DEF Next, Register, RemoveAgent, Evaluate, ReadPolicy, Record, SetPolicy, Pending,
           ApplyPolicies
  <2> QED BY <2>1, <2>2, <2>3, <2>4
<1> QED BY <1>1, IInvHolds, PTL DEF Spec, FirstVerdictStands

\* Evaluating is refused: what the frames of a Refused capability say of one call
RefusedFrame(f, n, cap, repo) ==
  /\ f # None /\ f.pc = "policy" /\ f.name = n /\ f.cap = cap /\ f.repo = repo
     => Decide(f.agent, cap, repo) = "deny"
  /\ f # None /\ f.pc = "record" /\ f.name = n /\ f.cap = cap /\ f.repo = repo
     => f.decision = "deny"

LEMMA RefusedSaysOfFrames ==
  ASSUME NEW n, NEW cap, NEW repo
  PROVE  Refused(n, cap, repo) <=>
           /\ agents[n] = None \/ Decide(agents[n], cap, repo) = "deny"
           /\ \A p \in Procs : RefusedFrame(frame[p], n, cap, repo)
BY DEF Refused, RefusedFrame, At

\* The call that a step leaves behind in its goroutine is refused as well.
LEMMA RefusedStep ==
  ASSUME IInv, NEW n \in Names, NEW cap \in Caps, NEW repo \in Repos,
         Refused(n, cap, repo), [Next]_vars
  PROVE  \A q \in Procs : RefusedFrame(frame'[q], n, cap, repo)
<1> DEFINE Good(f) == RefusedFrame(f, n, cap, repo)
           Goal == \A q \in Procs : Good(frame'[q])
<1> SUFFICES Goal
  OBVIOUS
<1>1. /\ agents[n] = None \/ Decide(agents[n], cap, repo) = "deny"
      /\ \A q \in Procs : Good(frame[q])
  BY RefusedSaysOfFrames
<1>2. ASSUME NEW p \in Procs, NEW f, frame' = [frame EXCEPT ![p] = f], Good(f) PROVE Goal
  <2> SUFFICES ASSUME NEW q \in Procs PROVE Good(frame'[q])
    OBVIOUS
  <2>1. frame'[q] = IF q = p THEN f ELSE frame[q]
    BY <1>2 DEF IInv
  <2> HIDE DEF Good
  <2> QED BY <1>1, <1>2, <2>1
<1>3. Good(None)
  BY DEF RefusedFrame
<1>4. ASSUME NEW p \in Evaluators, NEW m \in Names, NEW c \in Caps, NEW r \in Repos,
             Evaluate(p, m, c, r)
      PROVE  Goal
  <2> DEFINE f == Evaluation(IF agents[m] = None THEN "record" ELSE "policy", m, c, r)
  <2>1. p \in Procs /\ frame' = [frame EXCEPT ![p] = f]
    BY <1>4, TrustAssumption DEF Evaluate, Do
  <2>2. Good(f)
    BY <1>1 DEF RefusedFrame, Evaluation
  <2> HIDE DEF f, Good, Goal
  <2> QED BY <1>2, <2>1, <2>2
<1>5. ASSUME NEW p \in Procs, ReadPolicy(p) PROVE Goal
  <2> DEFINE d == Decide(frame[p].agent, frame[p].cap, frame[p].repo)
             f == [frame[p] EXCEPT !.pc = "record", !.decision = d]
  <2>1. frame' = [frame EXCEPT ![p] = f]
    BY <1>5 DEF ReadPolicy, Do
  <2>2. frame[p] \in Evaluating /\ frame[p] # None /\ frame[p].pc = "policy"
    BY <1>5, FrameAt DEF ReadPolicy, At
  <2>3. Good(frame[p])
    BY <1>1
  <2>4. frame[p].name = n /\ frame[p].cap = cap /\ frame[p].repo = repo => d = "deny"
    BY <2>2, <2>3 DEF RefusedFrame
  <2> HIDE DEF d
  <2>5. /\ f.pc = "record" /\ f.decision = d /\ f.name = frame[p].name
        /\ f.cap = frame[p].cap /\ f.repo = frame[p].repo
    BY <2>2 DEF Evaluating
  <2> HIDE DEF f
  <2>6. Good(f)
    BY <2>4, <2>5 DEF RefusedFrame
  <2> HIDE DEF Good, Goal
  <2> QED BY <1>2, <2>1, <2>6
<1>6. ASSUME NEW p \in Procs, Record(p) \/ \E verdict \in {"approved", "denied"} : Review(p, verdict)
      PROVE  Goal
  <2>1. frame' = [frame EXCEPT ![p] = None]
    BY <1>6 DEF Record, Review, Return
  <2> HIDE DEF Good, Goal
  <2> QED BY <1>2, <1>3, <2>1
<1>7. ASSUME NEW p \in Procs, SetPolicy(p) PROVE Goal
  <2>1. CASE Len(frame[p].todo) = 1
    <3>1. frame' = [frame EXCEPT ![p] = None]
      BY <1>7, <2>1 DEF SetPolicy, Return
    <3> HIDE DEF Good, Goal
    <3> QED BY <1>2, <1>3, <3>1
  <2>2. CASE Len(frame[p].todo) # 1
    <3> DEFINE rest == Tail(frame[p].todo)
               f == [frame[p] EXCEPT !.todo = rest]
    <3>1. frame' = [frame EXCEPT ![p] = f]
      BY <1>7, <2>2 DEF SetPolicy
    <3>2. frame[p] \in Setting
      BY <1>7, FrameAt DEF SetPolicy
    <3> HIDE DEF rest
    <3>3. f.pc = "set"
      BY <3>2 DEF Setting
    <3>4. Good(f)
      BY <3>3 DEF RefusedFrame
    <3> HIDE DEF f, Good, Goal
    <3> QED BY <1>2, <3>1, <3>4
  <2> QED BY <2>1, <2>2
<1>8. ASSUME NEW p \in Procs, Pending(p) PROVE Goal
  <2>1. PICK id \in DOMAIN requests :
          frame' = [frame EXCEPT ![p] = [pc |-> "review", id |-> id]]
    BY <1>8 DEF Pending, Do
  <2> DEFINE f == [pc |-> "review", id |-> id]
  <2>2. Good(f)
    BY DEF RefusedFrame
  <2> HIDE DEF f, Good, Goal
  <2>3. frame' = [frame EXCEPT ![p] = f]
    BY <2>1 DEF f
  <2> QED BY <1>2, <2>2, <2>3
<1>9. ASSUME NEW p \in Procs, NEW config \in Configs, ApplyPolicies(p, config) PROVE Goal
  <2> DEFINE f == [pc |-> "set", todo |-> config]
  <2>1. frame' = [frame EXCEPT ![p] = f]
    BY <1>9 DEF ApplyPolicies, Do
  <2>2. Good(f)
    BY DEF RefusedFrame
  <2> HIDE DEF f, Good, Goal
  <2> QED BY <1>2, <2>1, <2>2
<1>10. CASE Restart
  BY <1>3, <1>10 DEF Restart
<1>11. CASE UNCHANGED frame
  BY <1>1, <1>11
<1>12. ASSUME NEW m \in Names,
              (\E tier \in 0..3, scope \in Scopes : Register(m, tier, scope))
                \/ RemoveAgent(m) \/ Submit(m)
       PROVE  UNCHANGED frame
  BY <1>12 DEF Register, RemoveAgent, Submit
<1>13. UNCHANGED vars => UNCHANGED frame
  BY DEF vars
<1> HIDE DEF Good, Goal
<1>14. CASE \E m \in Names :
              \/ \E tier \in 0..3, scope \in Scopes : Register(m, tier, scope)
              \/ RemoveAgent(m) \/ Submit(m)
              \/ \E p \in Evaluators, c \in Caps, r \in Repos : Evaluate(p, m, c, r)
  BY <1>4, <1>11, <1>12, <1>14, Zenon
<1>15. CASE \E p \in Procs :
              \/ ReadPolicy(p) \/ Record(p) \/ SetPolicy(p) \/ Pending(p)
              \/ \E config \in Configs : ApplyPolicies(p, config)
              \/ \E verdict \in {"approved", "denied"} : Review(p, verdict)
  BY <1>5, <1>6, <1>7, <1>8, <1>9, <1>15, Zenon
<1>16. Next \/ UNCHANGED vars
  OBVIOUS
<1> QED BY <1>10, <1>11, <1>13, <1>14, <1>15, <1>16, Zenon DEF Next

\* Once an agent would be refused and no older evaluation is under way, none gives
\* it anything until the registry or a policy changes: the copies that Evaluate
\* works on are no way around a removal or a stricter policy (policy.go:85-154).
THEOREM RefusedHolds == Spec => RefusedStayRefused
<1>1. IInv /\ [Next]_vars =>
        [\A n \in Names, cap \in Caps, repo \in Repos :
           Refused(n, cap, repo) =>
             Refused(n, cap, repo)' \/ agents' # agents \/ policies' # policies]_vars
  <2> SUFFICES ASSUME IInv, [Next]_vars, NEW n \in Names, NEW cap \in Caps, NEW repo \in Repos,
                      Refused(n, cap, repo), agents' = agents, policies' = policies
               PROVE  Refused(n, cap, repo)'
    OBVIOUS
  <2>1. \A q \in Procs : RefusedFrame(frame'[q], n, cap, repo)
    BY RefusedStep
  <2> QED BY <2>1 DEF Refused, RefusedFrame, At, Decide
<1> QED BY <1>1, IInvHolds, PTL DEF Spec, RefusedStayRefused
=============================================================================
