-------------------------- MODULE Subagents_proofs --------------------------
(***************************************************************************)
(* Proofs about Subagents, for any profiles, catalogue of specialists,     *)
(* budget and limits: no run exceeds a profile its root read, no ledger    *)
(* exceeds its run's budget, and no call runs that nobody authorised.      *)
(*                                                                         *)
(* The invariant says of every run what its counters, its permissions and  *)
(* its ledger are, and of the tree that a child is younger than its parent *)
(* and may use no tool its parent may not.  The ledger's sum is a function *)
(* defined by recursion; what changes it is proved by induction on a set   *)
(* of numbers.                                                             *)
(***************************************************************************)
EXTENDS Subagents, SequenceTheorems, TLAPS, WellFoundedInduction

--------------------------------------------------------------------------------
(* The sum of a ledger.                                                    *)

(* A set of numbers that has 0 and every successor has them all.           *)
LEMMA Induction ==
  ASSUME NEW S \in SUBSET Nat, 0 \in S, \A n \in S : n + 1 \in S
  PROVE  S = Nat
<1> DEFINE T == Nat \ S
<1> SUFFICES ASSUME T # {} PROVE FALSE
  OBVIOUS
<1>1. IsWellFoundedOn(OpToRel(<, Nat), Nat)
  BY NatLessThanWellFounded
<1>2. PICK x \in T : \A y \in T : ~ (<<y, x>> \in OpToRel(<, Nat))
  <2>1. T \subseteq Nat
    OBVIOUS
  <2> HIDE DEF T
  <2> QED
    BY <1>1, <2>1, WFMin
<1>3. x - 1 \in Nat /\ x - 1 \in T
  OBVIOUS
<1>4. <<x - 1, x>> \in OpToRel(<, Nat)
  BY <1>3 DEF OpToRel
<1> QED
  BY <1>2, <1>3, <1>4

(* The numbers a parent gives its children.                                *)
Ids == 1 .. MAX_SUBAGENTS_PER_RUN

(* One step of the recursion in SumOf.                                     *)
SumStep(amount, sum, n) == IF n = 0 THEN 0 ELSE sum[n - 1] + amount[n]

(* The recursion has a solution up to every length.                        *)
LEMMA SumDefined ==
  ASSUME NEW amount, NEW n \in Nat
  PROVE  \E f : f = [i \in 0 .. n |-> SumStep(amount, f, i)]
<1> DEFINE Solved(k) == \E f : f = [i \in 0 .. k |-> SumStep(amount, f, i)]
           S == {k \in Nat : Solved(k)}
<1>1. 0 \in S
  <2> DEFINE f == [i \in 0 .. 0 |-> 0]
  <2>1. f = [i \in 0 .. 0 |-> SumStep(amount, f, i)]
    BY DEF SumStep
  <2> QED
    BY <2>1
<1>2. ASSUME NEW k \in S PROVE k + 1 \in S
  <2>1. PICK f : f = [i \in 0 .. k |-> SumStep(amount, f, i)]
    OBVIOUS
  <2> DEFINE g == [i \in 0 .. k + 1 |-> IF i = k + 1 THEN SumStep(amount, f, i) ELSE f[i]]
  <2>2. ASSUME NEW i \in 0 .. k + 1 PROVE g[i] = SumStep(amount, g, i)
    <3>1. CASE i = 0
      BY <2>1, <3>1 DEF SumStep
    <3>2. CASE i # 0
      <4>1. i - 1 \in 0 .. k /\ i - 1 # k + 1
        BY <3>2
      <4>2. g[i - 1] = f[i - 1]
        BY <4>1
      <4>3. SumStep(amount, g, i) = SumStep(amount, f, i)
        BY <4>2, <3>2 DEF SumStep
      <4>4. g[i] = SumStep(amount, f, i)
        BY <2>1
      <4> QED
        BY <4>3, <4>4
    <3> QED
      BY <3>1, <3>2
  <2>3. g = [i \in 0 .. k + 1 |-> g[i]]
    OBVIOUS
  <2>4. g = [i \in 0 .. k + 1 |-> SumStep(amount, g, i)]
    <3> HIDE DEF g
    <3> QED
      BY <2>2, <2>3, Zenon
  <2>5. Solved(k + 1)
    <3> HIDE DEF g
    <3> QED
      BY <2>4, Zenon
  <2>6. k + 1 \in Nat
    OBVIOUS
  <2> HIDE DEF Solved
  <2> QED
    BY <2>5, <2>6
<1>3. S = Nat
  <2> HIDE DEF S
  <2>1. S \in SUBSET Nat
    BY DEF S
  <2> QED
    BY <1>1, <1>2, <2>1, Induction
<1> QED
  BY <1>3

(* SumOf is the last of the partial sums.                                  *)
LEMMA SumSums ==
  ASSUME NEW amount
  PROVE  \E f : /\ f[0] = 0 /\ SumOf(amount) = f[MAX_SUBAGENTS_PER_RUN]
                /\ \A n \in Ids : f[n] = f[n - 1] + amount[n]
<1> DEFINE f == CHOOSE f : f = [i \in 0 .. MAX_SUBAGENTS_PER_RUN |-> SumStep(amount, f, i)]
<1>0. MAX_SUBAGENTS_PER_RUN \in Nat
  BY RunAssumption
<1>1. f = [i \in 0 .. MAX_SUBAGENTS_PER_RUN |-> SumStep(amount, f, i)]
  BY <1>0, SumDefined
<1>2. SumOf(amount) = f[MAX_SUBAGENTS_PER_RUN]
  BY DEF SumOf, SumStep
<1> HIDE DEF f
<1>3. f[0] = 0
  BY <1>0, <1>1 DEF SumStep
<1>4. ASSUME NEW n \in Ids PROVE f[n] = f[n - 1] + amount[n]
  <2>1. n \in 0 .. MAX_SUBAGENTS_PER_RUN /\ n # 0
    BY <1>0 DEF Ids
  <2>2. f[n] = SumStep(amount, f, n)
    BY <1>1, <2>1, Zenon
  <2> QED
    BY <2>1, <2>2 DEF SumStep
<1> QED
  BY <1>2, <1>3, <1>4

(* The sum of nothing is nothing.                                          *)
LEMMA SumOfNothing ==
  ASSUME NEW amount, \A i \in Ids : amount[i] = 0
  PROVE  SumOf(amount) = 0
<1>0. MAX_SUBAGENTS_PER_RUN \in Nat
  BY RunAssumption
<1>1. PICK f : /\ f[0] = 0 /\ SumOf(amount) = f[MAX_SUBAGENTS_PER_RUN]
               /\ \A n \in Ids : f[n] = f[n - 1] + amount[n]
  BY SumSums
<1> DEFINE S == {k \in Nat : k <= MAX_SUBAGENTS_PER_RUN => f[k] = 0}
<1>2. 0 \in S
  BY <1>1
<1>3. ASSUME NEW k \in S PROVE k + 1 \in S
  <2> SUFFICES ASSUME k + 1 <= MAX_SUBAGENTS_PER_RUN PROVE f[k + 1] = 0
    OBVIOUS
  <2>1. k + 1 \in Ids /\ k + 1 - 1 = k
    BY <1>0 DEF Ids
  <2>2. f[k + 1] = f[k + 1 - 1] + amount[k + 1]
    BY <1>1, <2>1
  <2> QED
    BY <1>0, <2>1, <2>2
<1>4. S = Nat
  <2> HIDE DEF S
  <2>1. S \in SUBSET Nat
    BY DEF S
  <2> QED
    BY <1>2, <1>3, <2>1, Induction
<1> QED
  BY <1>0, <1>1, <1>4

(* One amount changes the sum by as much.                                  *)
LEMMA SumChanges ==
  ASSUME NEW before, NEW after, NEW k \in Ids,
         \A i \in Ids : before[i] \in Int /\ after[i] \in Int,
         \A i \in Ids \ {k} : after[i] = before[i]
  PROVE  SumOf(before) \in Int /\ SumOf(after) = SumOf(before) + (after[k] - before[k])
<1>0. MAX_SUBAGENTS_PER_RUN \in Nat /\ k \in 1 .. MAX_SUBAGENTS_PER_RUN
  BY RunAssumption DEF Ids
<1>1. PICK f : /\ f[0] = 0 /\ SumOf(before) = f[MAX_SUBAGENTS_PER_RUN]
               /\ \A n \in Ids : f[n] = f[n - 1] + before[n]
  BY SumSums
<1>2. PICK g : /\ g[0] = 0 /\ SumOf(after) = g[MAX_SUBAGENTS_PER_RUN]
               /\ \A n \in Ids : g[n] = g[n - 1] + after[n]
  BY SumSums
<1> DEFINE gap == after[k] - before[k]
           S == {n \in Nat : n <= MAX_SUBAGENTS_PER_RUN =>
                   f[n] \in Int /\ g[n] = f[n] + (IF n < k THEN 0 ELSE gap)}
<1>3. 0 \in S
  BY <1>0, <1>1, <1>2
<1>4. ASSUME NEW n \in S PROVE n + 1 \in S
  <2> SUFFICES ASSUME n + 1 <= MAX_SUBAGENTS_PER_RUN
               PROVE  f[n + 1] \in Int /\ g[n + 1] = f[n + 1] + (IF n + 1 < k THEN 0 ELSE gap)
    OBVIOUS
  <2>1. n + 1 \in Ids /\ n + 1 - 1 = n
    BY <1>0 DEF Ids
  <2>2. f[n + 1] = f[n] + before[n + 1] /\ g[n + 1] = g[n] + after[n + 1]
    <3>1. f[n + 1] = f[n + 1 - 1] + before[n + 1] /\ g[n + 1] = g[n + 1 - 1] + after[n + 1]
      BY <1>1, <1>2, <2>1
    <3> QED
      BY <2>1, <3>1
  <2>3. f[n] \in Int /\ g[n] = f[n] + (IF n < k THEN 0 ELSE gap)
    BY <1>0, <2>1
  <2>4. before[n + 1] \in Int /\ after[n + 1] \in Int /\ gap \in Int
    BY <2>1
  <2>5. n + 1 # k => after[n + 1] = before[n + 1]
    BY <2>1
  <2>6. n + 1 = k => after[n + 1] = before[n + 1] + gap
    BY <2>4
  <2> HIDE DEF gap
  <2> QED
    BY <1>0, <2>2, <2>3, <2>4, <2>5, <2>6
<1>5. S = Nat
  <2> HIDE DEF S
  <2>1. S \in SUBSET Nat
    BY DEF S
  <2> QED
    BY <1>3, <1>4, <2>1, Induction
<1>6. MAX_SUBAGENTS_PER_RUN \in S /\ ~ (MAX_SUBAGENTS_PER_RUN < k)
  BY <1>0, <1>5
<1> QED
  BY <1>1, <1>2, <1>6

--------------------------------------------------------------------------------
(* The intersection of permission sets.                                    *)

(* The first rule for a repository is one of the rules for it.             *)
LEMMA FirstRuleIn ==
  ASSUME NEW rules, DOMAIN rules \subseteq Nat, NEW repo, Ruled(rules, repo)
  PROVE  \E k \in DOMAIN rules : rules[k].repo = repo /\ FirstRule(rules, repo) = rules[k]
<1> DEFINE T == {i \in DOMAIN rules : rules[i].repo = repo}
           first == CHOOSE i \in DOMAIN rules :
                      /\ rules[i].repo = repo
                      /\ \A j \in DOMAIN rules : rules[j].repo = repo => i <= j
<1>1. IsWellFoundedOn(OpToRel(<, Nat), Nat)
  BY NatLessThanWellFounded
<1>2. T \subseteq Nat /\ T # {}
  BY DEF Ruled
<1>3. PICK x \in T : \A y \in T : ~ (<<y, x>> \in OpToRel(<, Nat))
  <2> HIDE DEF T
  <2> QED
    BY <1>1, <1>2, WFMin
<1>4. ASSUME NEW y \in T PROVE x <= y
  <2>1. y < x => <<y, x>> \in OpToRel(<, Nat)
    BY <1>2 DEF OpToRel
  <2>2. ~ (y < x)
    BY <2>1, <1>3
  <2> QED
    BY <1>2, <2>2
<1>5. first \in DOMAIN rules /\ rules[first].repo = repo
  BY <1>3, <1>4
<1>6. FirstRule(rules, repo) = rules[first]
  BY DEF FirstRule
<1> HIDE DEF first
<1> QED
  BY <1>5, <1>6

(* Neither of two sets loses anything the other forbids to their           *)
(* intersection.                                                           *)
LEMMA MergeCovered ==
  ASSUME NEW p, NEW q, PermissionTyped(p), PermissionTyped(q)
  PROVE  PermissionTyped(merge(p, q)) /\ Covers(p, merge(p, q)) /\ Covers(q, merge(p, q))
<1> DEFINE m == merge(p, q)
<1>1. ASSUME NEW x \in LevelAxes
      PROVE  m.level[x] \in Nat /\ m.level[x] <= p.level[x] /\ m.level[x] <= q.level[x]
  <2>1. m.level[x] = IF p.level[x] <= q.level[x] THEN p.level[x] ELSE q.level[x]
    BY DEF merge
  <2>2. p.level[x] \in Nat /\ q.level[x] \in Nat
    BY DEF PermissionTyped
  <2> HIDE DEF m
  <2> QED
    BY <2>1, <2>2
<1>2. m.on = p.on \cap q.on /\ m.network_allowlist = p.network_allowlist \cap q.network_allowlist
  BY DEF merge
<1>3. m.github_repos = merged_rules(p.github_repos, q.github_repos)
  BY DEF merge
<1>4. ASSUME NEW i \in DOMAIN m.github_repos
      PROVE  /\ i \in DOMAIN p.github_repos
             /\ m.github_repos[i] = Narrowed(p.github_repos[i], q.github_repos)
             /\ m.github_repos[i].branches # {}
  BY <1>3, <1>4 DEF merged_rules
<1> HIDE DEF m
<1>5. ASSUME NEW i \in DOMAIN m.github_repos
      PROVE  LET mine == m.github_repos[i]
                 rule == p.github_repos[i]
                 its  == FirstRule(q.github_repos, rule.repo)
             IN  /\ DOMAIN mine = {"repo", "branches", "operacoes"}
                 /\ Ruled(q.github_repos, rule.repo)
                 /\ mine.repo = rule.repo
                 /\ mine.branches = rule.branches \cap its.branches
                 /\ mine.operacoes = rule.operacoes \cap its.operacoes
  <2> DEFINE rule == p.github_repos[i]
             its == FirstRule(q.github_repos, rule.repo)
             mine == m.github_repos[i]
  <2>1. mine = Narrowed(rule, q.github_repos) /\ mine.branches # {}
    BY <1>4, <1>5
  <2>2. DOMAIN rule = {"repo", "branches", "operacoes"}
    BY <1>4, <1>5 DEF PermissionTyped
  <2> HIDE DEF rule, mine
  <2>3. Ruled(q.github_repos, rule.repo)
    BY <2>1, <2>2 DEF Narrowed
  <2>4. mine = [rule EXCEPT !.branches = @ \cap its.branches, !.operacoes = @ \cap its.operacoes]
    BY <2>1, <2>3 DEF Narrowed
  <2> HIDE DEF its
  <2>5. /\ DOMAIN mine = {"repo", "branches", "operacoes"}
        /\ mine.repo = rule.repo
        /\ mine.branches = rule.branches \cap its.branches
        /\ mine.operacoes = rule.operacoes \cap its.operacoes
    BY <2>2, <2>4
  <2> QED
    BY <2>3, <2>5 DEF rule, its, mine
<1>6. PermissionTyped(m)
  <2>1. DOMAIN m.github_repos \subseteq Nat
    BY <1>4 DEF PermissionTyped
  <2> QED
    BY <1>1, <1>5, <2>1 DEF PermissionTyped
<1>7. ASSUME NEW i \in DOMAIN m.github_repos
      PROVE  /\ \E j \in DOMAIN p.github_repos :
                  LET mine == m.github_repos[i]
                      its  == p.github_repos[j]
                  IN  /\ mine.repo = its.repo
                      /\ mine.branches \subseteq its.branches /\ mine.operacoes \subseteq its.operacoes
             /\ \E j \in DOMAIN q.github_repos :
                  LET mine == m.github_repos[i]
                      its  == q.github_repos[j]
                  IN  /\ mine.repo = its.repo
                      /\ mine.branches \subseteq its.branches /\ mine.operacoes \subseteq its.operacoes
  <2>1. i \in DOMAIN p.github_repos /\ DOMAIN q.github_repos \subseteq Nat
    BY <1>4, <1>7 DEF PermissionTyped
  <2>2. PICK k \in DOMAIN q.github_repos :
          /\ q.github_repos[k].repo = p.github_repos[i].repo
          /\ FirstRule(q.github_repos, p.github_repos[i].repo) = q.github_repos[k]
    BY <1>5, <1>7, <2>1, FirstRuleIn
  <2> QED
    BY <1>5, <1>7, <2>1, <2>2
<1>8. Covers(p, m)
  BY <1>1, <1>2, <1>7 DEF Covers
<1>9. Covers(q, m)
  BY <1>1, <1>2, <1>7 DEF Covers
<1> QED
  BY <1>6, <1>8, <1>9 DEF m

(* Covering goes down from a set to what the set covers.                   *)
LEMMA CoversOfCovers ==
  ASSUME NEW p, NEW m, NEW n, PermissionTyped(p), PermissionTyped(m), PermissionTyped(n),
         Covers(p, m), Covers(m, n)
  PROVE  Covers(p, n)
<1>1. ASSUME NEW x \in LevelAxes PROVE n.level[x] <= p.level[x]
  <2>1. n.level[x] <= m.level[x] /\ m.level[x] <= p.level[x]
    BY DEF Covers
  <2>2. n.level[x] \in Nat /\ m.level[x] \in Nat /\ p.level[x] \in Nat
    BY DEF PermissionTyped
  <2> QED
    BY <2>1, <2>2
<1>2. n.on \subseteq p.on /\ n.network_allowlist \subseteq p.network_allowlist
  BY DEF Covers
<1>3. ASSUME NEW i \in DOMAIN n.github_repos
      PROVE  \E j \in DOMAIN p.github_repos :
                LET mine == n.github_repos[i]
                    its  == p.github_repos[j]
                IN  /\ mine.repo = its.repo
                    /\ mine.branches \subseteq its.branches /\ mine.operacoes \subseteq its.operacoes
  <2>1. PICK k \in DOMAIN m.github_repos :
          /\ n.github_repos[i].repo = m.github_repos[k].repo
          /\ n.github_repos[i].branches \subseteq m.github_repos[k].branches
          /\ n.github_repos[i].operacoes \subseteq m.github_repos[k].operacoes
    BY <1>3 DEF Covers
  <2>2. PICK j \in DOMAIN p.github_repos :
          /\ m.github_repos[k].repo = p.github_repos[j].repo
          /\ m.github_repos[k].branches \subseteq p.github_repos[j].branches
          /\ m.github_repos[k].operacoes \subseteq p.github_repos[j].operacoes
    BY DEF Covers
  <2> QED
    BY <2>1, <2>2
<1> QED
  BY <1>1, <1>2, <1>3 DEF Covers

(* Three sets: what any of them forbids their intersection forbids.        *)
LEMMA Merge3Covered ==
  ASSUME NEW p, NEW q, NEW r, PermissionTyped(p), PermissionTyped(q), PermissionTyped(r)
  PROVE  /\ Covers(p, merge3(p, q, r)) /\ Covers(q, merge3(p, q, r)) /\ Covers(r, merge3(p, q, r))
         /\ PermissionTyped(merge3(p, q, r))
<1> DEFINE m == merge(p, q)
           n == merge(m, r)
<1>1. PermissionTyped(m) /\ Covers(p, m) /\ Covers(q, m)
  BY MergeCovered
<1> HIDE DEF m
<1>2. PermissionTyped(n) /\ Covers(m, n) /\ Covers(r, n)
  BY <1>1, MergeCovered
<1> HIDE DEF n
<1>3. Covers(p, n)
  BY <1>1, <1>2, CoversOfCovers
<1>4. Covers(q, n)
  BY <1>1, <1>2, CoversOfCovers
<1>5. n = merge3(p, q, r)
  BY DEF merge3, m, n
<1> QED
  BY <1>2, <1>3, <1>4, <1>5

(* What every content of a profile parses to is a set of permissions.      *)
LEMMA ParsedTyped ==
  ASSUME NEW c PROVE PermissionTyped(Parsed(c))
<1>1. CASE c \in DOMAIN Profile
  BY <1>1, ProfileAssumption DEF Parsed
<1>2. CASE c \notin DOMAIN Profile
  <2>1. Parsed(c) = default
    BY <1>2 DEF Parsed
  <2>2. PermissionTyped(default)
    BY DEF default, PermissionTyped
  <2> QED
    BY <2>1, <2>2
<1> QED
  BY <1>1, <1>2

--------------------------------------------------------------------------------
(* The inductive invariant.                                                *)

(* A function on the numbers from 1 up to its length.                      *)
IsSeq(s) == s \in Seq({s[i] : i \in DOMAIN s})

Fields == {"parent", "child_id", "depth", "specialist", "subagent_count", "budget", "spent",
           "permissions", "allowed", "ledger"}

Entries == [allocation : [Axes -> Nat], spent : [Spending -> Nat]]

(* A ledger holds an allocation for some of the children numbered so far.  *)
LedgerOf(ledger, count) ==
    /\ DOMAIN ledger \subseteq 1 .. count
    /\ \A n \in DOMAIN ledger : ledger[n] \in Entries

(* A run by itself: its counters, the permissions of its root, its tools   *)
(* and a ledger within its budget.                                         *)
RunOK(run) ==
    /\ DOMAIN run = Fields
    /\ run.depth \in 0 .. MAX_DEPTH /\ run.subagent_count \in 0 .. MAX_SUBAGENTS_PER_RUN
    /\ run.budget \in [Axes -> Nat] /\ run.spent \in [Spending -> Nat]
    /\ run.permissions = merge3(loading[1], loading[2], loading[3])
    /\ run.allowed \subseteq Registered
    /\ run.parent # 0 => \A t \in run.allowed : Grants(run.specialist, t)
    /\ LedgerOf(run.ledger, run.subagent_count)
    /\ \A x \in Axes : SumOf(Amounts(run.ledger, x)) <= run.budget[x]

(* A run in its tree: its parent is an earlier one that may use every tool *)
(* it may use.                                                             *)
InTree(tree, r) ==
    /\ tree[r].parent \in 0 .. r - 1
    /\ tree[r].parent # 0 => tree[r].allowed \subseteq tree[tree[r].parent].allowed

TreeOK == \A r \in DOMAIN runs : RunOK(runs[r]) /\ InTree(runs, r)

FilesOK == files \in [{"user", "project", "assistant"} -> Contents]

(* What is cached for a content is what the content parses to.             *)
CacheOK ==
    \A l \in {"user", "project", "assistant"}, c \in Contents :
        <<l, c>> \in DOMAIN cache => cache[<<l, c>>] = Parsed(c)

(* What a load read is what the contents it saw parse to, and a tree grows *)
(* only from a whole load.                                                 *)
LoadOK ==
    /\ seen \in Seq(Contents) /\ IsSeq(loading)
    /\ Len(loading) = Len(seen) /\ Len(seen) <= 3
    /\ \A i \in 1 .. Len(seen) : loading[i] = Parsed(seen[i])
    /\ runs # <<>> => Len(seen) = 3

IndInv == FilesOK /\ CacheOK /\ LoadOK /\ IsSeq(runs) /\ TreeOK

--------------------------------------------------------------------------------
(* The sequences of the specification.                                     *)

(* A function on the numbers from 1 is a sequence.                         *)
LEMMA SeqOf ==
  ASSUME NEW s, NEW n \in Nat, NEW e, s = [i \in 1 .. n |-> e[i]]
  PROVE  IsSeq(s) /\ Len(s) = n
<1> DEFINE S == {s[i] : i \in DOMAIN s}
<1>1. s \in [1 .. n -> S]
  OBVIOUS
<1> HIDE DEF S
<1>2. s \in Seq(S) /\ Len(s) = n
  BY <1>1
<1> QED
  BY <1>2 DEF IsSeq, S

(* What Append does to a sequence.                                         *)
LEMMA SeqAppend ==
  ASSUME NEW s, NEW e, IsSeq(s)
  PROVE  /\ IsSeq(Append(s, e)) /\ Len(s) \in Nat /\ Len(Append(s, e)) = Len(s) + 1
         /\ DOMAIN s = 1 .. Len(s) /\ DOMAIN Append(s, e) = 1 .. Len(s) + 1
         /\ \A i \in 1 .. Len(s) : Append(s, e)[i] = s[i]
         /\ Append(s, e)[Len(s) + 1] = e
<1> DEFINE S == {s[i] : i \in DOMAIN s} \union {e}
           t == Append(s, e)
<1>1. s \in Seq(S) /\ e \in S
  <2>1. PICK U : U = {s[i] : i \in DOMAIN s}
    OBVIOUS
  <2>2. s \in Seq(U) /\ U \subseteq S
    BY <2>1 DEF IsSeq
  <2>3. Seq(U) \subseteq Seq(S)
    BY <2>2
  <2> QED
    BY <2>2, <2>3
<1> HIDE DEF S
<1>2. /\ t \in Seq(S) /\ Len(s) \in Nat /\ Len(t) = Len(s) + 1
      /\ DOMAIN s = 1 .. Len(s) /\ DOMAIN t = 1 .. Len(s) + 1
      /\ \A i \in 1 .. Len(s) : t[i] = s[i]
      /\ t[Len(s) + 1] = e
  BY <1>1
<1> HIDE DEF t
<1>3. IsSeq(t)
  <2>1. t = [i \in 1 .. Len(s) + 1 |-> t[i]] /\ Len(s) + 1 \in Nat
    BY <1>2
  <2> QED
    BY <2>1, SeqOf
<1> QED
  BY <1>2, <1>3 DEF t

--------------------------------------------------------------------------------
(* One run.                                                                *)

(* The amounts of a ledger are numbers.                                    *)
LEMMA AmountsTyped ==
  ASSUME NEW ledger, NEW count \in 0 .. MAX_SUBAGENTS_PER_RUN, LedgerOf(ledger, count),
         NEW x \in Axes, NEW i \in Ids
  PROVE  Amounts(ledger, x)[i] \in Nat
<1>1. Amounts(ledger, x)[i] = IF i \in DOMAIN ledger THEN ledger[i].allocation[x] ELSE 0
  BY DEF Amounts, Ids
<1>2. ASSUME i \in DOMAIN ledger PROVE ledger[i].allocation[x] \in Nat
  BY <1>2 DEF LedgerOf, Entries
<1> QED
  BY <1>1, <1>2

(* A run that starts has given nothing away.                               *)
LEMMA NewRunOK ==
  ASSUME NEW parent, NEW child_id, NEW depth \in 0 .. MAX_DEPTH, NEW specialist,
         NEW budget \in [Axes -> Nat], NEW allowed \in SUBSET Registered,
         parent # 0 => \A t \in allowed : Grants(specialist, t)
  PROVE  LET run == NewRun(parent, child_id, depth, specialist, budget,
                           merge3(loading[1], loading[2], loading[3]), allowed)
         IN  RunOK(run) /\ run.parent = parent /\ run.allowed = allowed
<1> DEFINE permissions == merge3(loading[1], loading[2], loading[3])
           run == NewRun(parent, child_id, depth, specialist, budget, permissions, allowed)
<1>1. permissions = merge3(loading[1], loading[2], loading[3])
  OBVIOUS
<1> HIDE DEF permissions
<1>2. /\ DOMAIN run = Fields /\ run.depth = depth /\ run.parent = parent /\ run.allowed = allowed
      /\ run.specialist = specialist /\ run.subagent_count = 0 /\ run.budget = budget /\ run.spent = NoSpending
      /\ run.permissions = permissions /\ run.ledger = <<>>
  BY DEF NewRun, Fields
<1> HIDE DEF run
<1>3. run.spent \in [Spending -> Nat]
  BY <1>2 DEF NoSpending
<1>4. DOMAIN run.ledger = {}
  BY <1>2
<1>5. LedgerOf(run.ledger, 0)
  BY <1>4 DEF LedgerOf
<1>6. ASSUME NEW x \in Axes PROVE SumOf(Amounts(run.ledger, x)) = 0
  <2>1. \A i \in Ids : Amounts(run.ledger, x)[i] = 0
    BY <1>4 DEF Amounts, Ids
  <2> QED
    BY <2>1, SumOfNothing
<1>7. \A x \in Axes : SumOf(Amounts(run.ledger, x)) <= run.budget[x]
  BY <1>2, <1>6
<1>8. 0 \in 0 .. MAX_SUBAGENTS_PER_RUN
  BY RunAssumption
<1>9. RunOK(run)
  BY <1>1, <1>2, <1>3, <1>5, <1>7, <1>8 DEF RunOK
<1> QED
  BY <1>1, <1>2, <1>9 DEF run

(* What is left of a budget is no more than the budget.                    *)
LEMMA RemainingWithin ==
  ASSUME NEW p, RunOK(runs[p]), NEW x \in Axes
  PROVE  remaining(p)[x] \in Nat /\ remaining(p)[x] <= runs[p].budget[x]
<1>1. runs[p].budget[x] \in Nat
  BY DEF RunOK
<1>2. ASSUME x \in Spending PROVE runs[p].spent[x] \in Nat
  BY <1>2 DEF RunOK
<1>3. remaining(p)[x] = IF x \notin Spending THEN runs[p].budget[x]
                        ELSE IF runs[p].spent[x] >= runs[p].budget[x] THEN 0
                        ELSE runs[p].budget[x] - runs[p].spent[x]
  BY DEF remaining
<1> QED
  BY <1>1, <1>2, <1>3

(* A parent that is charged stays within its budget: the sum grows by the  *)
(* one allocation the ledger checked.                                      *)
LEMMA ChargedOK ==
  ASSUME NEW p, RunOK(runs[p]), NEW a \in [Axes -> Nat], MaySpawn(p, a)
  PROVE  /\ RunOK(Charged(p, a))
         /\ Charged(p, a).parent = runs[p].parent /\ Charged(p, a).allowed = runs[p].allowed
<1> DEFINE run == runs[p]
           k == run.subagent_count + 1
           after == [n \in DOMAIN run.ledger \union {k} |->
                       IF n = k THEN [allocation |-> a, spent |-> NoSpending] ELSE run.ledger[n]]
           charged == [run EXCEPT !.subagent_count = k, !.ledger = after]
<1>0. MAX_SUBAGENTS_PER_RUN \in Nat
  BY RunAssumption
<1>1. charged = Charged(p, a)
  BY DEF Charged
<1>2. RunOK(run) /\ run = runs[p]
  OBVIOUS
<1>3. run.subagent_count \in 0 .. MAX_SUBAGENTS_PER_RUN /\ k \in Ids /\ k = run.subagent_count + 1
  BY <1>0, <1>2 DEF MaySpawn, RunOK, Ids
<1> HIDE DEF run, k
<1>4. /\ DOMAIN after = DOMAIN run.ledger \union {k}
      /\ after[k] = [allocation |-> a, spent |-> NoSpending]
      /\ \A n \in DOMAIN run.ledger \ {k} : after[n] = run.ledger[n]
  OBVIOUS
<1> HIDE DEF after
<1>5. LedgerOf(run.ledger, run.subagent_count)
  BY <1>2 DEF RunOK
<1>6. k \notin DOMAIN run.ledger
  BY <1>3, <1>5 DEF LedgerOf
<1>7. LedgerOf(after, k)
  <2>1. DOMAIN after \subseteq 1 .. k
    BY <1>3, <1>4, <1>5 DEF LedgerOf
  <2>2. after[k] \in Entries
    <3>1. NoSpending \in [Spending -> Nat]
      BY DEF NoSpending
    <3> QED
      BY <1>4, <3>1 DEF Entries
  <2>3. ASSUME NEW n \in DOMAIN after PROVE after[n] \in Entries
    BY <1>4, <1>5, <2>2, <2>3 DEF LedgerOf
  <2> QED
    BY <2>1, <2>3 DEF LedgerOf
<1>8. ASSUME NEW x \in Axes PROVE SumOf(Amounts(after, x)) <= run.budget[x]
  <2> DEFINE old == Amounts(run.ledger, x)
             new == Amounts(after, x)
  <2>1. \A i \in Ids : old[i] \in Int /\ new[i] \in Int
    <3>1. k \in 0 .. MAX_SUBAGENTS_PER_RUN
      BY <1>0, <1>3 DEF Ids
    <3> QED
      BY <1>3, <1>5, <1>7, <3>1, AmountsTyped
  <2>2. \A i \in Ids \ {k} : new[i] = old[i]
    BY <1>4 DEF Amounts, Ids
  <2>3. old[k] = 0 /\ new[k] = a[x]
    BY <1>3, <1>4, <1>6 DEF Amounts, Ids
  <2>4. SumOf(old) + a[x] <= remaining(p)[x]
    <3>1. total_allocated(p)[x] = SumOf(old)
      BY <1>2 DEF total_allocated
    <3>2. total_allocated(p)[x] + a[x] <= remaining(p)[x]
      BY DEF MaySpawn, LedgerTakes, Fits
    <3> QED
      BY <3>1, <3>2
  <2> HIDE DEF old, new
  <2>5. SumOf(old) \in Int /\ SumOf(new) = SumOf(old) + (new[k] - old[k])
    BY <1>3, <2>1, <2>2, SumChanges
  <2>6. remaining(p)[x] \in Nat /\ remaining(p)[x] <= run.budget[x] /\ run.budget[x] \in Nat
    BY <1>2, RemainingWithin DEF RunOK
  <2>7. SumOf(new) <= run.budget[x]
    <3>1. a[x] \in Nat
      OBVIOUS
    <3> QED
      BY <2>3, <2>4, <2>5, <2>6, <3>1
  <2> QED
    BY <2>7 DEF new
<1>9. /\ DOMAIN charged = Fields /\ charged.subagent_count = k /\ charged.ledger = after
      /\ charged.parent = run.parent /\ charged.allowed = run.allowed
      /\ charged.depth = run.depth /\ charged.budget = run.budget /\ charged.spent = run.spent
      /\ charged.permissions = run.permissions /\ charged.specialist = run.specialist
  <2>1. DOMAIN run = Fields
    BY <1>2 DEF RunOK
  <2> QED
    BY <2>1 DEF Fields
<1> HIDE DEF charged
<1>10. RunOK(charged)
  <2>1. k \in 0 .. MAX_SUBAGENTS_PER_RUN
    BY <1>0, <1>3 DEF Ids
  <2> QED
    BY <1>2, <1>7, <1>8, <1>9, <2>1 DEF RunOK
<1> QED
  BY <1>1, <1>2, <1>9, <1>10

(* What a run spends is none of its ledger's.                              *)
LEMMA SpentOK ==
  ASSUME NEW run, RunOK(run)
  PROVE  LET after == [run EXCEPT !.spent = Plus(@, Delta)]
         IN  RunOK(after) /\ after.parent = run.parent /\ after.allowed = run.allowed
<1> DEFINE after == [run EXCEPT !.spent = Plus(@, Delta)]
<1>1. run.spent \in [Spending -> Nat] /\ DOMAIN run = Fields
  BY DEF RunOK
<1>2. /\ DOMAIN after = Fields /\ after.depth = run.depth
      /\ after.subagent_count = run.subagent_count
      /\ after.ledger = run.ledger /\ after.parent = run.parent /\ after.allowed = run.allowed
      /\ after.budget = run.budget /\ after.permissions = run.permissions
      /\ after.specialist = run.specialist
      /\ after.spent = Plus(run.spent, Delta)
  BY <1>1 DEF Fields
<1>3. Plus(run.spent, Delta) \in [Spending -> Nat]
  BY <1>1 DEF Plus, Delta
<1> HIDE DEF after
<1>4. RunOK(after)
  BY <1>2, <1>3 DEF RunOK
<1> QED
  BY <1>2, <1>4 DEF after

(* A ledger that loses entries, and keeps of the others the allocation,    *)
(* stays within the budget.                                                *)
LEMMA LedgerShrinks ==
  ASSUME NEW run, NEW after, RunOK(run),
         DOMAIN after = Fields, after.parent = run.parent, after.allowed = run.allowed,
         after.budget = run.budget, after.permissions = run.permissions,
         after.specialist = run.specialist,
         after.depth = run.depth, after.subagent_count = run.subagent_count,
         after.spent \in [Spending -> Nat],
         \/ DOMAIN after.ledger = DOMAIN run.ledger
         \/ \E k \in DOMAIN run.ledger : DOMAIN after.ledger = DOMAIN run.ledger \ {k},
         \A n \in DOMAIN after.ledger :
            after.ledger[n] \in Entries /\ after.ledger[n].allocation = run.ledger[n].allocation
  PROVE  RunOK(after)
<1>0. MAX_SUBAGENTS_PER_RUN \in Nat
  BY RunAssumption
<1>1. run.subagent_count \in 0 .. MAX_SUBAGENTS_PER_RUN /\ LedgerOf(run.ledger, run.subagent_count)
  BY DEF RunOK
<1>2. LedgerOf(after.ledger, run.subagent_count)
  BY <1>1 DEF LedgerOf
<1>3. ASSUME NEW x \in Axes PROVE SumOf(Amounts(after.ledger, x)) <= run.budget[x]
  <2> DEFINE old == Amounts(run.ledger, x)
             new == Amounts(after.ledger, x)
  <2>0. SumOf(old) <= run.budget[x] /\ run.budget[x] \in Nat
    BY DEF RunOK
  <2>1. CASE DOMAIN after.ledger = DOMAIN run.ledger
    <3>1. new = old
      BY <2>1 DEF Amounts
    <3> QED
      BY <2>0, <3>1
  <2>2. ASSUME NEW k \in DOMAIN run.ledger, DOMAIN after.ledger = DOMAIN run.ledger \ {k}
        PROVE  SumOf(new) <= run.budget[x]
    <3>1. k \in Ids
      BY <1>0, <1>1 DEF LedgerOf, Ids
    <3>2. \A i \in Ids : old[i] \in Nat /\ new[i] \in Nat
      BY <1>1, <1>2, AmountsTyped
    <3>3. \A i \in Ids \ {k} : new[i] = old[i]
      BY <2>2 DEF Amounts, Ids
    <3>4. new[k] = 0
      BY <2>2, <3>1 DEF Amounts, Ids
    <3> HIDE DEF old, new
    <3>5. \A i \in Ids : old[i] \in Int /\ new[i] \in Int
      BY <3>2
    <3>6. SumOf(old) \in Int /\ SumOf(new) = SumOf(old) + (new[k] - old[k])
      BY <3>1, <3>3, <3>5, SumChanges
    <3> QED
      BY <2>0, <3>1, <3>2, <3>4, <3>6
  <2> QED
    BY <2>1, <2>2
<1> QED
  BY <1>1, <1>2, <1>3 DEF RunOK

(* The parent of a run that spent, with its ledger.                        *)
LEMMA ParentSpentOK ==
  ASSUME NEW run, NEW k, RunOK(run)
  PROVE  LET after == [run EXCEPT !.spent = Plus(@, Delta),
                                  !.ledger = record_spent(@, k)]
         IN  RunOK(after) /\ after.parent = run.parent /\ after.allowed = run.allowed
<1> DEFINE ledger == record_spent(run.ledger, k)
           after == [run EXCEPT !.spent = Plus(@, Delta),
                                !.ledger = record_spent(@, k)]
<1>1. /\ run.spent \in [Spending -> Nat] /\ DOMAIN run = Fields
      /\ LedgerOf(run.ledger, run.subagent_count)
  BY DEF RunOK
<1>2. /\ DOMAIN after = Fields /\ after.depth = run.depth
      /\ after.subagent_count = run.subagent_count
      /\ after.parent = run.parent /\ after.allowed = run.allowed
      /\ after.budget = run.budget /\ after.permissions = run.permissions
      /\ after.specialist = run.specialist
      /\ after.spent = Plus(run.spent, Delta) /\ after.ledger = ledger
  BY <1>1 DEF Fields
<1>3. Plus(run.spent, Delta) \in [Spending -> Nat]
  BY <1>1 DEF Plus, Delta
<1>4. ASSUME NEW n \in DOMAIN run.ledger
      PROVE  ledger[n] \in Entries /\ ledger[n].allocation = run.ledger[n].allocation
  <2>1. run.ledger[n] \in Entries
    BY <1>1 DEF LedgerOf
  <2>2. [run.ledger[n] EXCEPT !.spent = Plus(@, Delta)] \in Entries
    <3>1. Plus(run.ledger[n].spent, Delta) \in [Spending -> Nat]
      BY <2>1 DEF Entries, Plus, Delta
    <3> QED
      BY <2>1, <3>1 DEF Entries
  <2>3. [run.ledger[n] EXCEPT !.spent = Plus(@, Delta)].allocation = run.ledger[n].allocation
    BY <2>1 DEF Entries
  <2> QED
    BY <2>1, <2>2, <2>3 DEF record_spent
<1>5. DOMAIN ledger = DOMAIN run.ledger
  BY DEF record_spent
<1> HIDE DEF after, ledger
<1>6. RunOK(after)
  <2>1. after.spent \in [Spending -> Nat]
    BY <1>2, <1>3
  <2>2. DOMAIN after.ledger = DOMAIN run.ledger
    BY <1>2, <1>5
  <2>3. \A n \in DOMAIN after.ledger :
           after.ledger[n] \in Entries /\ after.ledger[n].allocation = run.ledger[n].allocation
    BY <1>2, <1>4, <1>5
  <2> QED
    BY <1>2, <2>1, <2>2, <2>3, LedgerShrinks
<1> QED
  BY <1>2, <1>6 DEF after

(* The parent of a run that was released.                                  *)
LEMMA ReleasedOK ==
  ASSUME NEW run, RunOK(run), NEW k \in DOMAIN run.ledger
  PROVE  LET after == [run EXCEPT !.ledger = [n \in DOMAIN @ \ {k} |-> @[n]]]
         IN  RunOK(after) /\ after.parent = run.parent /\ after.allowed = run.allowed
<1> DEFINE ledger == [n \in DOMAIN run.ledger \ {k} |-> run.ledger[n]]
           after == [run EXCEPT !.ledger = [n \in DOMAIN @ \ {k} |-> @[n]]]
<1>1. /\ run.spent \in [Spending -> Nat] /\ DOMAIN run = Fields
      /\ LedgerOf(run.ledger, run.subagent_count)
  BY DEF RunOK
<1>2. /\ DOMAIN after = Fields /\ after.depth = run.depth
      /\ after.subagent_count = run.subagent_count
      /\ after.parent = run.parent /\ after.allowed = run.allowed
      /\ after.budget = run.budget /\ after.permissions = run.permissions
      /\ after.specialist = run.specialist
      /\ after.spent = run.spent /\ after.ledger = ledger
  BY <1>1 DEF Fields
<1>3. /\ DOMAIN ledger = DOMAIN run.ledger \ {k}
      /\ \A n \in DOMAIN ledger :
            ledger[n] \in Entries /\ ledger[n].allocation = run.ledger[n].allocation
  BY <1>1 DEF LedgerOf
<1> HIDE DEF after, ledger
<1>4. RunOK(after)
  <2>1. after.spent \in [Spending -> Nat]
    BY <1>1, <1>2
  <2>2. DOMAIN after.ledger = DOMAIN run.ledger \ {k}
    BY <1>2, <1>3
  <2>3. \A n \in DOMAIN after.ledger :
           after.ledger[n] \in Entries /\ after.ledger[n].allocation = run.ledger[n].allocation
    BY <1>2, <1>3
  <2> QED
    BY <1>2, <2>1, <2>2, <2>3, LedgerShrinks
<1> QED
  BY <1>2, <1>4 DEF after

--------------------------------------------------------------------------------
(* The steps of a tree.                                                    *)

(* A step that leaves every run its place and its tools leaves a tree.     *)
LEMMA SamePlaces ==
  ASSUME NEW tree, NEW after, DOMAIN after = DOMAIN tree, DOMAIN tree \subseteq Nat,
         \A r \in DOMAIN tree : 1 .. r \subseteq DOMAIN tree,
         \A r \in DOMAIN tree :
            after[r].parent = tree[r].parent /\ after[r].allowed = tree[r].allowed,
         NEW r \in DOMAIN tree, InTree(tree, r)
  PROVE  InTree(after, r)
<1>1. tree[r].parent \in 0 .. r - 1 /\ r \in Nat
  BY DEF InTree
<1>2. tree[r].parent # 0 => tree[r].parent \in DOMAIN tree
  BY <1>1
<1> QED
  BY <1>1, <1>2 DEF InTree

(* The same of every run of the tree.                                      *)
LEMMA TreeAfter ==
  ASSUME NEW tree, NEW after, IsSeq(tree), DOMAIN after = DOMAIN tree,
         \A r \in DOMAIN tree : InTree(tree, r),
         \A r \in DOMAIN tree :
            after[r].parent = tree[r].parent /\ after[r].allowed = tree[r].allowed
  PROVE  \A r \in DOMAIN tree : InTree(after, r)
<1>1. DOMAIN tree = 1 .. Len(tree) /\ Len(tree) \in Nat
  BY SeqAppend
<1>2. DOMAIN tree \subseteq Nat /\ \A r \in DOMAIN tree : 1 .. r \subseteq DOMAIN tree
  BY <1>1
<1> QED
  BY <1>2, SamePlaces, Zenon

(* A child put last in a tree, with no tool its parent lacks.              *)
LEMMA TreeWithChild ==
  ASSUME NEW tree, NEW child, IsSeq(tree), \A r \in DOMAIN tree : InTree(tree, r),
         child.parent \in DOMAIN tree, child.allowed \subseteq tree[child.parent].allowed
  PROVE  \A r \in DOMAIN Append(tree, child) : InTree(Append(tree, child), r)
<1> DEFINE after == Append(tree, child)
<1>1. /\ Len(tree) \in Nat /\ DOMAIN tree = 1 .. Len(tree) /\ DOMAIN after = 1 .. Len(tree) + 1
      /\ \A i \in 1 .. Len(tree) : after[i] = tree[i]
      /\ after[Len(tree) + 1] = child
  BY SeqAppend
<1> HIDE DEF after
<1>2. ASSUME NEW r \in 1 .. Len(tree) PROVE InTree(after, r)
  <2>1. InTree(tree, r) /\ after[r] = tree[r]
    BY <1>1
  <2>2. tree[r].parent # 0 => tree[r].parent \in 1 .. Len(tree)
    BY <1>1, <2>1 DEF InTree
  <2> QED
    BY <1>1, <2>1, <2>2 DEF InTree
<1>3. InTree(after, Len(tree) + 1)
  <2>1. child.parent \in 0 .. Len(tree) /\ after[child.parent] = tree[child.parent]
    BY <1>1
  <2> QED
    BY <1>1, <2>1 DEF InTree
<1> QED
  BY <1>1, <1>2, <1>3 DEF after

(* A child may use no tool its parent or its specialist may not.           *)
LEMMA ChildAllowed ==
  ASSUME NEW s, NEW allowed
  PROVE  /\ compute_child_allowed_for_run(allowed, s) \subseteq allowed
         /\ \A t \in compute_child_allowed_for_run(allowed, s) : Grants(s, t)
BY DEF compute_child_allowed_for_run, Grants

(* A spawn, refused after its parent was charged or not, keeps the tree.   *)
LEMMA SpawnStep ==
  ASSUME IndInv, NEW p \in DOMAIN runs, NEW s \in DOMAIN Specialists, NEW a \in Allocations,
         try_spawn(p, s, a)
  PROVE  IsSeq(runs') /\ TreeOK' /\ runs # <<>>
<1> DEFINE charged == [runs EXCEPT ![p] = Charged(p, a)]
           mine == compute_child_allowed_for_run(runs[p].allowed, s)
           child == NewRun(p, runs[p].subagent_count + 1, runs[p].depth + 1, s,
                           a, runs[p].permissions, mine)
<1>1. IsSeq(runs) /\ DOMAIN runs = 1 .. Len(runs) /\ Len(runs) \in Nat
  BY SeqAppend DEF IndInv
<1>2. RunOK(runs[p]) /\ \A r \in DOMAIN runs : RunOK(runs[r]) /\ InTree(runs, r)
  BY DEF IndInv, TreeOK
<1>3. a \in [Axes -> Nat] /\ MaySpawn(p, a)
  BY RunAssumption DEF try_spawn
<1>4. /\ RunOK(Charged(p, a))
      /\ Charged(p, a).parent = runs[p].parent /\ Charged(p, a).allowed = runs[p].allowed
  BY <1>2, <1>3, ChargedOK
<1>5. /\ DOMAIN charged = DOMAIN runs
      /\ \A r \in DOMAIN runs : /\ RunOK(charged[r])
                                /\ charged[r].parent = runs[r].parent
                                /\ charged[r].allowed = runs[r].allowed
  BY <1>2, <1>4
<1>6. IsSeq(charged) /\ Len(charged) = Len(runs)
  <2>1. charged = [i \in 1 .. Len(runs) |-> charged[i]]
    BY <1>1
  <2> HIDE DEF charged
  <2> QED
    BY <1>1, <2>1, SeqOf
<1> HIDE DEF charged
<1>7. \A r \in DOMAIN charged : InTree(charged, r)
  BY <1>1, <1>2, <1>5, TreeAfter
<1>8. mine \subseteq runs[p].allowed /\ \A t \in mine : Grants(s, t)
  BY ChildAllowed
<1> HIDE DEF mine
<1>9. RunOK(child) /\ child.parent = p /\ child.allowed = mine
  <2>1. /\ mine \in SUBSET Registered
        /\ runs[p].permissions = merge3(loading[1], loading[2], loading[3])
    BY <1>2, <1>8 DEF RunOK
  <2>2. runs[p].depth + 1 \in 0 .. MAX_DEPTH
    BY <1>2, <1>3, RunAssumption DEF RunOK, MaySpawn
  <2>3. \A t \in mine : Grants(s, t)
    BY <1>8
  <2> HIDE DEF child
  <2>4. LET run == NewRun(p, runs[p].subagent_count + 1, runs[p].depth + 1, s, a,
                          merge3(loading[1], loading[2], loading[3]), mine)
        IN  RunOK(run) /\ run.parent = p /\ run.allowed = mine
    BY <1>3, <2>1, <2>2, <2>3, NewRunOK
  <2> QED
    BY <2>1, <2>4 DEF child
<1> HIDE DEF child
<1>10. \A r \in DOMAIN Append(charged, child) :
          RunOK(Append(charged, child)[r]) /\ InTree(Append(charged, child), r)
  <2>1. \A r \in DOMAIN Append(charged, child) : InTree(Append(charged, child), r)
    BY <1>5, <1>6, <1>7, <1>8, <1>9, TreeWithChild
  <2>2. \A r \in DOMAIN Append(charged, child) : RunOK(Append(charged, child)[r])
    BY <1>1, <1>5, <1>6, <1>9, SeqAppend
  <2> QED
    BY <2>1, <2>2
<1>11. runs' = charged \/ runs' = Append(charged, child)
  BY DEF try_spawn, charged, child, mine
<1>12. IsSeq(runs')
  <2>1. IsSeq(Append(charged, child))
    BY <1>6, SeqAppend
  <2> QED
    BY <1>6, <1>11, <2>1, Zenon
<1>13. \A r \in DOMAIN runs' : RunOK(runs'[r]) /\ InTree(runs', r)
  BY <1>5, <1>7, <1>10, <1>11
<1>14. loading' = loading
  BY DEF try_spawn
<1>15. TreeOK'
  <2>1. \A r \in DOMAIN runs' : RunOK(runs[r])'
    BY <1>13, <1>14 DEF RunOK
  <2>2. \A r \in DOMAIN runs' : InTree(runs, r)'
    BY <1>13 DEF InTree
  <2> QED
    BY <2>1, <2>2 DEF TreeOK
<1>16. runs # <<>>
  BY <1>1
<1> QED
  BY <1>12, <1>15, <1>16

(* A step that changes runs one by one keeps the tree.                     *)
LEMMA RunsStep ==
  ASSUME IndInv, loading' = loading,
         runs' = [r \in DOMAIN runs |-> runs'[r]],
         \A r \in DOMAIN runs : /\ RunOK(runs'[r])
                                /\ runs'[r].parent = runs[r].parent
                                /\ runs'[r].allowed = runs[r].allowed
  PROVE  IsSeq(runs') /\ TreeOK'
<1>1. IsSeq(runs) /\ DOMAIN runs = 1 .. Len(runs) /\ Len(runs) \in Nat
  BY SeqAppend DEF IndInv
<1>2. \A r \in DOMAIN runs : InTree(runs, r)
  BY DEF IndInv, TreeOK
<1>3. DOMAIN runs' = DOMAIN runs
  OBVIOUS
<1>4. IsSeq(runs')
  <2>1. runs' = [i \in 1 .. Len(runs) |-> runs'[i]]
    BY <1>1, Zenon
  <2> QED
    BY <1>1, <2>1, SeqOf
<1>5. \A r \in DOMAIN runs : InTree(runs', r)
  BY <1>1, <1>2, <1>3, TreeAfter
<1>6. \A r \in DOMAIN runs' : RunOK(runs[r])'
  BY <1>3 DEF RunOK
<1>7. \A r \in DOMAIN runs' : InTree(runs, r)'
  BY <1>3, <1>5 DEF InTree
<1> QED
  BY <1>4, <1>6, <1>7 DEF TreeOK

(* A round of a run, recorded by its parent and the parent's ledger.       *)
LEMMA RoundStep ==
  ASSUME IndInv, NEW r \in DOMAIN runs, Round(r)
  PROVE  IsSeq(runs') /\ TreeOK'
<1>1. ASSUME NEW k \in DOMAIN runs
      PROVE  /\ RunOK(runs'[k])
             /\ runs'[k].parent = runs[k].parent /\ runs'[k].allowed = runs[k].allowed
  <2>1. RunOK(runs[k])
    BY DEF IndInv, TreeOK
  <2>2. CASE k = r
    <3>1. runs'[k] = [runs[k] EXCEPT !.spent = Plus(@, Delta)]
      BY <2>2 DEF Round
    <3> QED
      BY <2>1, <3>1, SpentOK, Zenon
  <2>3. CASE k # r /\ k = runs[r].parent
    <3>1. runs'[k] = [runs[k] EXCEPT !.spent = Plus(@, Delta),
                                     !.ledger = record_spent(@, runs[r].child_id)]
      BY <2>3 DEF Round
    <3>2. PICK run, id : run = runs[k] /\ id = runs[r].child_id
      OBVIOUS
    <3>3. LET after == [run EXCEPT !.spent = Plus(@, Delta), !.ledger = record_spent(@, id)]
          IN  RunOK(after) /\ after.parent = run.parent /\ after.allowed = run.allowed
      <4>1. RunOK(run)
        BY <2>1, <3>2
      <4> QED
        BY <4>1, ParentSpentOK
    <3>4. runs'[k] = [run EXCEPT !.spent = Plus(@, Delta), !.ledger = record_spent(@, id)]
      BY <3>1, <3>2
    <3> QED
      BY <3>2, <3>3, <3>4, Zenon
  <2>4. CASE k # r /\ k # runs[r].parent
    <3>1. runs'[k] = runs[k]
      BY <2>4 DEF Round
    <3> QED
      BY <2>1, <3>1
  <2> QED
    BY <2>2, <2>3, <2>4
<1>2. runs' = [k \in DOMAIN runs |-> runs'[k]] /\ loading' = loading
  BY DEF Round
<1> QED
  BY <1>1, <1>2, RunsStep

(* A child that ended.                                                     *)
LEMMA ReleaseStep ==
  ASSUME IndInv, NEW c \in DOMAIN runs, release(c)
  PROVE  IsSeq(runs') /\ TreeOK'
<1> DEFINE p == runs[c].parent
           id == runs[c].child_id
<1>1. /\ id \in DOMAIN runs[p].ledger /\ loading' = loading
      /\ runs' = [runs EXCEPT ![p].ledger = [n \in DOMAIN @ \ {id} |-> @[n]]]
  BY DEF release
<1>2. ASSUME NEW k \in DOMAIN runs
      PROVE  /\ RunOK(runs'[k])
             /\ runs'[k].parent = runs[k].parent /\ runs'[k].allowed = runs[k].allowed
  <2>1. RunOK(runs[k])
    BY DEF IndInv, TreeOK
  <2>2. CASE k = p
    <3>1. runs'[k] = [runs[k] EXCEPT !.ledger = [n \in DOMAIN @ \ {id} |-> @[n]]]
      BY <1>1, <2>2
    <3>2. id \in DOMAIN runs[k].ledger
      BY <1>1, <2>2
    <3>3. PICK run, i : run = runs[k] /\ i = id
      OBVIOUS
    <3> HIDE DEF id, p
    <3>4. LET after == [run EXCEPT !.ledger = [n \in DOMAIN @ \ {i} |-> @[n]]]
          IN  RunOK(after) /\ after.parent = run.parent /\ after.allowed = run.allowed
      <4>1. RunOK(run) /\ i \in DOMAIN run.ledger
        BY <2>1, <3>2, <3>3
      <4> QED
        BY <4>1, ReleasedOK
    <3>5. runs'[k] = [run EXCEPT !.ledger = [n \in DOMAIN @ \ {i} |-> @[n]]]
      BY <3>1, <3>3
    <3> QED
      BY <3>3, <3>4, <3>5, Zenon
  <2>3. CASE k # p
    <3>1. runs'[k] = runs[k]
      BY <1>1, <2>3
    <3> QED
      BY <2>1, <3>1
  <2> QED
    BY <2>2, <2>3
<1>3. runs' = [k \in DOMAIN runs |-> runs'[k]]
  BY <1>1
<1> QED
  BY <1>1, <1>2, <1>3, RunsStep

(* A root starts from a whole load.                                        *)
LEMMA StartStep ==
  ASSUME IndInv, StartRoot
  PROVE  IsSeq(runs') /\ TreeOK' /\ Len(seen) = 3
<1> DEFINE root == NewRun(0, 0, 0, "none", Budget, merge3(loading[1], loading[2], loading[3]), Registered)
<1>1. RunOK(root) /\ root.parent = 0
  <2>1. /\ Budget \in [Axes -> Nat] /\ Registered \in SUBSET Registered
        /\ 0 \in 0 .. MAX_DEPTH
    BY RunAssumption
  <2> QED
    BY <2>1, NewRunOK
<1>2. runs' = <<root>> /\ loading' = loading
  BY DEF StartRoot
<1> HIDE DEF root
<1>3. runs' = [i \in 1 .. 1 |-> root] /\ Len(runs') = 1
  BY <1>2
<1>4. IsSeq(runs')
  <2>1. runs' = [i \in 1 .. 1 |-> runs'[i]]
    BY <1>3
  <2> QED
    BY <2>1, SeqOf
<1>5. DOMAIN runs' = {1} /\ runs'[1] = root
  BY <1>3
<1>6. RunOK(runs[1])'
  BY <1>1, <1>2, <1>5 DEF RunOK
<1>7. InTree(runs, 1)'
  BY <1>1, <1>5 DEF InTree
<1>8. Len(seen) = 3
  BY DEF StartRoot, IndInv, LoadOK
<1> QED
  BY <1>4, <1>5, <1>6, <1>7, <1>8 DEF TreeOK

(* Before there is a root, or after it ended, there is no tree.            *)
LEMMA NoTree ==
  ASSUME runs' = <<>>
  PROVE  IsSeq(runs') /\ TreeOK'
<1>1. runs' = [i \in 1 .. 0 |-> 0] /\ DOMAIN runs' = {}
  OBVIOUS
<1>2. IsSeq(runs')
  <2>1. runs' = [i \in 1 .. 0 |-> runs'[i]]
    BY <1>1
  <2> QED
    BY <2>1, SeqOf
<1> QED
  BY <1>1, <1>2 DEF TreeOK

(* What a load answers is what the content it read parses to, whether or   *)
(* not it comes from the cache.                                            *)
LEMMA LoadStep ==
  ASSUME IndInv, load_profile
  PROVE  CacheOK' /\ LoadOK' /\ runs = <<>>
<1> DEFINE l == Layers[Len(loading) + 1]
           c == files[l]
           set == IF <<l, c>> \in DOMAIN cache THEN cache[<<l, c>>] ELSE Parsed(c)
<1>1. /\ seen \in Seq(Contents) /\ IsSeq(loading) /\ Len(loading) = Len(seen)
      /\ \A i \in 1 .. Len(seen) : loading[i] = Parsed(seen[i])
      /\ runs # <<>> => Len(seen) = 3
  BY DEF IndInv, LoadOK
<1>2. Len(loading) \in 0 .. 2
  BY <1>1 DEF load_profile
<1>3. l \in {"user", "project", "assistant"}
  <2>1. Len(loading) + 1 \in {1, 2, 3}
    <3>1. \A n \in 0 .. 2 : n + 1 \in {1, 2, 3}
      OBVIOUS
    <3> QED
      BY <1>2, <3>1, Zenon
  <2>2. \A i \in {1, 2, 3} : Layers[i] \in {"user", "project", "assistant"}
    BY DEF Layers
  <2> QED
    BY <2>1, <2>2
<1>4. c \in Contents
  BY <1>3 DEF IndInv, FilesOK
<1>5. set = Parsed(c)
  BY <1>3, <1>4 DEF IndInv, CacheOK
<1>6. /\ loading' = Append(loading, set) /\ seen' = Append(seen, c) /\ runs' = runs
      /\ \/ cache' = [k \in DOMAIN cache \union {<<l, c>>} |->
                        IF k = <<l, c>> THEN set ELSE cache[k]]
         \/ cache' = cache
  BY DEF load_profile, CacheKey
<1> HIDE DEF set
<1>7. CacheOK'
  <2> SUFFICES ASSUME NEW m \in {"user", "project", "assistant"}, NEW d \in Contents,
                      <<m, d>> \in DOMAIN cache'
               PROVE  cache'[<<m, d>>] = Parsed(d)
    BY DEF CacheOK, Parsed
  <2>1. <<m, d>> \in DOMAIN cache => cache[<<m, d>>] = Parsed(d)
    BY DEF IndInv, CacheOK
  <2>2. <<m, d>> = <<l, c>> => d = c
    OBVIOUS
  <2> HIDE DEF l, c
  <2> QED
    BY <1>5, <1>6, <2>1, <2>2
<1> HIDE DEF l, c
<1>8. /\ IsSeq(loading') /\ Len(loading') = Len(loading) + 1
      /\ loading'[Len(loading) + 1] = set
      /\ \A i \in 1 .. Len(loading) : loading'[i] = loading[i]
  <2>1. /\ IsSeq(Append(loading, set)) /\ Len(Append(loading, set)) = Len(loading) + 1
        /\ Append(loading, set)[Len(loading) + 1] = set
        /\ \A i \in 1 .. Len(loading) : Append(loading, set)[i] = loading[i]
    BY <1>1, SeqAppend
  <2> QED
    BY <1>6, <2>1, Zenon
<1>9. /\ seen' \in Seq(Contents) /\ Len(seen') = Len(seen) + 1
      /\ seen'[Len(seen) + 1] = c
      /\ \A i \in 1 .. Len(seen) : seen'[i] = seen[i]
  BY <1>1, <1>4, <1>6
<1>10. \A i \in 1 .. Len(seen') : loading'[i] = Parsed(seen'[i])
  BY <1>1, <1>2, <1>5, <1>8, <1>9
<1>11. runs = <<>> /\ Len(seen') <= 3
  BY <1>1, <1>2, <1>9
<1> QED
  BY <1>1, <1>6, <1>7, <1>8, <1>9, <1>10, <1>11 DEF LoadOK, Parsed

--------------------------------------------------------------------------------
(* The theorems.                                                           *)

(* Every step of the specification keeps the invariant.                    *)
LEMMA IndInvHolds == Spec => []IndInv
<1>1. Init => IndInv
  <2> SUFFICES ASSUME Init PROVE IndInv
    OBVIOUS
  <2>1. FilesOK
    BY ProfileAssumption DEF Init, FilesOK
  <2>2. CacheOK
    BY DEF Init, CacheOK
  <2>3. IsSeq(<<>>)
    <3>1. <<>> = [i \in 1 .. 0 |-> <<>>[i]]
      OBVIOUS
    <3> QED
      BY <3>1, SeqOf
  <2>4. LoadOK
    BY <2>3 DEF Init, LoadOK
  <2>5. IsSeq(runs) /\ TreeOK
    BY <2>3 DEF Init, TreeOK
  <2> QED
    BY <2>1, <2>2, <2>4, <2>5 DEF IndInv
<1>2. IndInv /\ [Next]_vars => IndInv'
  <2> SUFFICES ASSUME IndInv, [Next]_vars PROVE IndInv'
    OBVIOUS
  <2>0. FilesOK /\ CacheOK /\ LoadOK /\ IsSeq(runs) /\ TreeOK
    BY DEF IndInv
  <2>1. ASSUME NEW l \in DOMAIN files, NEW c \in Contents, EditProfile(l, c) PROVE IndInv'
    <3>1. FilesOK'
      BY <2>0, <2>1 DEF EditProfile, FilesOK
    <3>2. UNCHANGED <<cache, loading, seen, runs>>
      BY <2>1 DEF EditProfile
    <3>3. CacheOK' /\ LoadOK'
      BY <2>0, <3>2 DEF CacheOK, LoadOK, Parsed
    <3>4. IsSeq(runs') /\ TreeOK'
      BY <2>0, <3>2 DEF TreeOK, RunOK, InTree
    <3> QED
      BY <3>1, <3>3, <3>4 DEF IndInv
  <2>2. ASSUME load_profile PROVE IndInv'
    <3>1. CacheOK' /\ LoadOK' /\ runs = <<>>
      BY <2>2, LoadStep
    <3>2. files' = files /\ runs' = runs
      BY <2>2 DEF load_profile
    <3>3. FilesOK'
      BY <2>0, <3>2 DEF FilesOK
    <3>4. IsSeq(runs') /\ TreeOK'
      BY <3>1, <3>2, NoTree
    <3> QED
      BY <3>1, <3>3, <3>4 DEF IndInv
  <2>3. ASSUME StartRoot PROVE IndInv'
    <3>1. IsSeq(runs') /\ TreeOK' /\ Len(seen) = 3
      BY <2>3, StartStep
    <3>2. UNCHANGED <<files, cache, loading, seen>>
      BY <2>3 DEF StartRoot
    <3>3. FilesOK' /\ CacheOK' /\ LoadOK'
      BY <2>0, <3>1, <3>2 DEF FilesOK, CacheOK, LoadOK, Parsed
    <3> QED
      BY <3>1, <3>3 DEF IndInv
  <2>4. ASSUME Reload PROVE IndInv'
    <3>1. runs' = <<>> /\ loading' = <<>> /\ seen' = <<>> /\ UNCHANGED <<files, cache>>
      BY <2>4 DEF Reload
    <3>2. IsSeq(runs') /\ TreeOK'
      BY <3>1, NoTree
    <3>3. LoadOK'
      BY <3>1, <3>2 DEF LoadOK
    <3>4. FilesOK' /\ CacheOK'
      BY <2>0, <3>1 DEF FilesOK, CacheOK, Parsed
    <3> QED
      BY <3>2, <3>3, <3>4 DEF IndInv
  <2>5. ASSUME NEW p \in DOMAIN runs, NEW s \in DOMAIN Specialists, NEW a \in Allocations,
               try_spawn(p, s, a)
        PROVE  IndInv'
    <3>1. IsSeq(runs') /\ TreeOK' /\ runs # <<>>
      BY <2>5, SpawnStep
    <3>2. UNCHANGED <<files, cache, loading, seen>>
      BY <2>5 DEF try_spawn
    <3>3. FilesOK' /\ CacheOK' /\ LoadOK'
      BY <2>0, <3>1, <3>2 DEF FilesOK, CacheOK, LoadOK, Parsed
    <3> QED
      BY <3>1, <3>3 DEF IndInv
  <2>6. ASSUME NEW r \in DOMAIN runs, Round(r) PROVE IndInv'
    <3>1. IsSeq(runs') /\ TreeOK'
      BY <2>6, RoundStep
    <3>2. UNCHANGED <<files, cache, loading, seen>>
      BY <2>6 DEF Round
    <3>3. runs # <<>>
      BY <2>6
    <3>4. FilesOK' /\ CacheOK' /\ LoadOK'
      BY <2>0, <3>2, <3>3 DEF FilesOK, CacheOK, LoadOK, Parsed
    <3> QED
      BY <3>1, <3>4 DEF IndInv
  <2>7. ASSUME NEW c \in DOMAIN runs, release(c) PROVE IndInv'
    <3>1. IsSeq(runs') /\ TreeOK'
      BY <2>7, ReleaseStep
    <3>2. UNCHANGED <<files, cache, loading, seen>> /\ runs # <<>>
      BY <2>7 DEF release
    <3>3. FilesOK' /\ CacheOK' /\ LoadOK'
      BY <2>0, <3>2 DEF FilesOK, CacheOK, LoadOK, Parsed
    <3> QED
      BY <3>1, <3>3 DEF IndInv
  <2>8. CASE UNCHANGED vars
    <3>1. UNCHANGED <<files, cache, loading, seen, runs>>
      BY <2>8 DEF vars
    <3>2. FilesOK' /\ CacheOK' /\ LoadOK'
      BY <2>0, <3>1 DEF FilesOK, CacheOK, LoadOK, Parsed
    <3>3. IsSeq(runs') /\ TreeOK'
      BY <2>0, <3>1 DEF TreeOK, RunOK, InTree
    <3> QED
      BY <3>2, <3>3 DEF IndInv
  <2> QED
    BY <2>1, <2>2, <2>3, <2>4, <2>5, <2>6, <2>7, <2>8 DEF Next
<1> QED
  BY <1>1, <1>2, PTL DEF Spec

(* Every run of the tree has the permissions its root read the three       *)
(* profiles for, and each of those profiles covers them.                   *)
LEMMA RunsCovered ==
  ASSUME IndInv, NEW r \in DOMAIN runs, NEW l \in DOMAIN seen
  PROVE  /\ Covers(Parsed(seen[l]), runs[r].permissions) /\ PermissionTyped(runs[r].permissions)
         /\ PermissionTyped(Parsed(seen[l]))
<1>1. Len(seen) = 3 /\ DOMAIN seen = 1 .. 3
  <2>1. runs # <<>>
    OBVIOUS
  <2> QED
    BY <2>1 DEF IndInv, LoadOK
<1>2. loading[1] = Parsed(seen[1]) /\ loading[2] = Parsed(seen[2]) /\ loading[3] = Parsed(seen[3])
  BY <1>1 DEF IndInv, LoadOK
<1>3. runs[r].permissions = merge3(Parsed(seen[1]), Parsed(seen[2]), Parsed(seen[3]))
  BY <1>2 DEF IndInv, TreeOK, RunOK
<1>4. PICK p, q, s : p = Parsed(seen[1]) /\ q = Parsed(seen[2]) /\ s = Parsed(seen[3])
  OBVIOUS
<1>5. PermissionTyped(p) /\ PermissionTyped(q) /\ PermissionTyped(s)
  BY <1>4, ParsedTyped, Zenon
<1>6. /\ Covers(p, merge3(p, q, s)) /\ Covers(q, merge3(p, q, s)) /\ Covers(s, merge3(p, q, s))
      /\ PermissionTyped(merge3(p, q, s))
  BY <1>5, Merge3Covered
<1>7. l = 1 \/ l = 2 \/ l = 3
  BY <1>1
<1> QED
  BY <1>3, <1>4, <1>5, <1>6, <1>7

(* WithinLayers: no run of any tree, however deep, may do what one of the  *)
(* three profiles its root read does not allow - whatever the profiles     *)
(* say, when they are edited and what was cached before.                   *)
THEOREM NobodyExceedsAProfile == Spec => []WithinLayers
<1>1. IndInv => WithinLayers
  BY RunsCovered DEF WithinLayers
<1> QED
  BY <1>1, IndInvHolds, PTL

(* LedgerWithinBudget: what a parent gave to children that are alive sums  *)
(* to no more than its own budget, for every budget, every allocation      *)
(* asked for and every order of spawns, refusals, rounds and releases.     *)
THEOREM LedgersAlwaysWithin == Spec => []LedgerWithinBudget
<1>1. IndInv => LedgerWithinBudget
  <2> SUFFICES ASSUME IndInv, NEW r \in DOMAIN runs, NEW x \in Axes
               PROVE  total_allocated(r)[x] <= runs[r].budget[x]
    BY DEF LedgerWithinBudget, Fits
  <2>1. SumOf(Amounts(runs[r].ledger, x)) <= runs[r].budget[x]
    BY DEF IndInv, TreeOK, RunOK
  <2>2. total_allocated(r)[x] = SumOf(Amounts(runs[r].ledger, x))
    BY DEF total_allocated
  <2> QED
    BY <2>1, <2>2
<1> QED
  BY <1>1, IndInvHolds, PTL

(* TypeOK: no run is deeper than the limit, every parent is older than its *)
(* children, and a load reads three profiles and no more.                  *)
THEOREM DepthAlwaysBounded == Spec => []TypeOK
<1>1. IndInv => TypeOK
  <2> SUFFICES ASSUME IndInv PROVE TypeOK
    OBVIOUS
  <2>1. DOMAIN runs = 1 .. Len(runs)
    BY SeqAppend DEF IndInv
  <2>2. ASSUME NEW r \in DOMAIN runs PROVE runs[r].depth \in 0 .. MAX_DEPTH /\ runs[r].parent < r
    <3>1. RunOK(runs[r]) /\ InTree(runs, r) /\ r \in Nat
      BY <2>1 DEF IndInv, TreeOK
    <3> QED
      BY <3>1 DEF RunOK, InTree
  <2> QED
    BY <2>2 DEF IndInv, FilesOK, LoadOK, TypeOK
<1> QED
  BY <1>1, IndInvHolds, PTL

(* What the manifests declare: a tool that does more than read asks the    *)
(* user.                                                                   *)
LEMMA WritersAsk ==
  ASSUME NEW t \in DOMAIN Catalog, Catalog[t].requires # {"file_read"}
  PROVE  Catalog[t].requires_user_approval
<1>1. /\ \A u \in {"files.read", "files.list", "git.status", "git.diff", "git.log",
                   "milestone.list"} :
            Catalog[u].requires = {"file_read"}
      /\ \A u \in {"files.write", "files.edit", "git.branch", "git.commit", "milestone.create",
                   "milestone.restore", "exec.python", "exec.node", "exec.shell", "github.push",
                   "github.create_pr"} : Catalog[u].requires_user_approval = TRUE
  <2>1. \A u \in {"files.read", "files.list", "git.status", "git.diff", "git.log",
                  "milestone.list"} :
           Catalog[u].requires = {"file_read"}
    BY DEF Catalog, Manifest, files_read, files_list, git_status, git_diff, git_log,
           milestone_list
  <2>2. \A u \in {"files.write", "files.edit", "git.branch", "git.commit"} :
           Catalog[u].requires_user_approval = TRUE
    BY DEF Catalog, Manifest, files_write, files_edit, git_branch, git_commit
  <2>3. \A u \in {"milestone.create", "milestone.restore", "exec.python"} :
           Catalog[u].requires_user_approval = TRUE
    BY DEF Catalog, Manifest, milestone_create, milestone_restore, exec_python
  <2>4. \A u \in {"exec.node", "exec.shell", "github.push", "github.create_pr"} :
           Catalog[u].requires_user_approval = TRUE
    BY DEF Catalog, Manifest, exec_node, exec_shell, github_push, github_create_pr
  <2> QED
    BY <2>1, <2>2, <2>3, <2>4
<1>2. t \in {"files.read", "files.list", "git.status", "git.diff", "git.log", "milestone.list"}
           \union {"files.write", "files.edit", "git.branch", "git.commit", "milestone.create",
                   "milestone.restore", "exec.python", "exec.node", "exec.shell", "github.push",
                   "github.create_pr"}
  BY DEF Catalog
<1> QED
  BY <1>1, <1>2

(* A tool of a run is one of every run above it.                           *)
LEMMA LineageAllows ==
  ASSUME IndInv, NEW r \in DOMAIN runs, NEW t \in runs[r].allowed, NEW a \in Lineage(r)
  PROVE  a \in DOMAIN runs /\ t \in runs[a].allowed
<1> DEFINE up == {x \in DOMAIN runs : t \in runs[x].allowed}
<1>1. DOMAIN runs = 1 .. Len(runs) /\ Len(runs) \in Nat
  BY SeqAppend DEF IndInv
<1>2. ASSUME NEW x \in up, runs[x].parent # 0
      PROVE  runs[x].parent \in up
  <2>1. /\ runs[x].parent \in 0 .. x - 1
        /\ runs[x].allowed \subseteq runs[runs[x].parent].allowed
    BY <1>2 DEF IndInv, TreeOK, InTree
  <2>2. runs[x].parent \in DOMAIN runs
    BY <1>1, <1>2, <2>1
  <2> QED
    BY <2>1, <2>2
<1>3. r \in up /\ up \in SUBSET DOMAIN runs
  OBVIOUS
<1>4. a \in up
  <2> HIDE DEF up
  <2> QED
    BY <1>2, <1>3 DEF Lineage
<1> QED
  BY <1>4

(* CallsAuthorised: a call the executor runs, at whatever depth, only      *)
(* reads, what every profile lets it read, with a tool that its run, each  *)
(* run above it and the specialists of all of them may use.                *)
THEOREM CallsAlwaysAuthorised == Spec => []CallsAuthorised
<1>1. IndInv => CallsAuthorised
  <2> SUFFICES ASSUME IndInv, NEW r \in DOMAIN runs, NEW call \in Calls,
                      validate_tool_call(ContextOf(r), call) = "approved"
               PROVE  /\ Catalog[call.tool].requires = {"file_read"}
                      /\ \A l \in DOMAIN seen : Parsed(seen[l]).level["file_read"] > 0
                      /\ \A a \in Lineage(r) :
                            /\ call.tool \in runs[a].allowed
                            /\ runs[a].parent # 0 => Grants(runs[a].specialist, call.tool)
    BY DEF CallsAuthorised
  <2>1. /\ call.tool \in ContextOf(r).allowed
        /\ "file_read" \in Catalog[call.tool].requires =>
              ContextOf(r).permissions.level["file_read"] # 0
        /\ Catalog[call.tool].requires_user_approval => Answer(call) = "approved"
    BY DEF validate_tool_call
  <2>2. ContextOf(r).allowed = runs[r].allowed /\ ContextOf(r).permissions = runs[r].permissions
    BY DEF ContextOf
  <2>3. call.tool \in DOMAIN Catalog /\ call.approval = "none"
    BY RunAssumption DEF Calls
  <2>4. Catalog[call.tool].requires = {"file_read"}
    BY <2>1, <2>3, WritersAsk DEF Answer
  <2>5. ASSUME NEW l \in DOMAIN seen
        PROVE  Parsed(seen[l]).level["file_read"] > 0
    <3>1. runs[r].permissions.level["file_read"] # 0
      BY <2>1, <2>2, <2>4
    <3>2. "file_read" \in LevelAxes
      BY DEF LevelAxes
    <3>3. /\ runs[r].permissions.level["file_read"] <= Parsed(seen[l]).level["file_read"]
          /\ runs[r].permissions.level["file_read"] \in Nat
          /\ Parsed(seen[l]).level["file_read"] \in Nat
      BY <3>2, RunsCovered DEF Covers, PermissionTyped
    <3> QED
      BY <3>1, <3>3
  <2>6. ASSUME NEW a \in Lineage(r)
        PROVE  /\ call.tool \in runs[a].allowed
               /\ runs[a].parent # 0 => Grants(runs[a].specialist, call.tool)
    <3>1. a \in DOMAIN runs /\ call.tool \in runs[a].allowed
      BY <2>1, <2>2, <2>6, LineageAllows
    <3>2. RunOK(runs[a])
      BY <3>1 DEF IndInv, TreeOK
    <3> QED
      BY <3>1, <3>2 DEF RunOK
  <2> QED
    BY <2>4, <2>5, <2>6
<1> QED
  BY <1>1, IndInvHolds, PTL

=============================================================================
