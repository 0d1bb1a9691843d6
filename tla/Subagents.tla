----------------------------- MODULE Subagents -----------------------------
(***************************************************************************)
(* A root run and the subagents below it: the permissions the root loads   *)
(* from the three profiles of a conversation (tool-registry,               *)
(* permission_loader.rs), the gate every subagent passes (execution-engine,*)
(* subagent_runner.rs) and the ledger each parent keeps of what it gave    *)
(* away (agent-engine, subagent_budget.rs).                                *)
(*                                                                         *)
(* Profiles are files the user may edit at any moment, between two of the  *)
(* three reads of one load included.  The caller of the gate, the release  *)
(* and the round is outside src/: it does what the comments of those       *)
(* functions ask of it.                                                    *)
(***************************************************************************)
EXTENDS ToolCatalog, Sequences

CONSTANTS Contents,      \* contents of a profile: "missing", "broken" or a key of Profile
          Profile,       \* the set of permissions each well-formed content names
          Registered,    \* the tools of the registry
          Specialists,   \* specialist -> [allowed_tools, denied_tools]
          Budget,        \* the budget of a root run, axis by axis
          Allocations,   \* the allocations a caller asks for
          MAX_DEPTH, MAX_SUBAGENTS_PER_RUN,
          MaxEdits, MaxSpawns, MaxRounds   \* bounds

\* A profile may name a repository twice: nothing in the loader refuses it.
ASSUME ProfileAssumption ==
    /\ DOMAIN Profile = Contents \ {"missing", "broken"}
    /\ \A c \in DOMAIN Profile : PermissionTyped(Profile[c])

Layers == <<"user", "project", "assistant">>
Axes   == {"max_steps", "max_tokens_in", "max_tokens_out", "max_cost_microcents", "max_wall_clock"}

\* Every tool of the registry is one of the catalogue.
ASSUME RunAssumption ==
    /\ Registered \subseteq DOMAIN Catalog
    /\ Budget \in [Axes -> Nat] /\ Allocations \subseteq [Axes -> Nat]
    /\ MAX_DEPTH \in Nat /\ MAX_SUBAGENTS_PER_RUN \in Nat

\* What a run spends is counted on every axis but the time.
Spending == Axes \ {"max_wall_clock"}

VARIABLES files,    \* layer -> content on disk
          cache,    \* <<layer, content>> -> parsed set
          loading,  \* sets read so far by the load that is under way
          seen,     \* ghost: the contents the root's load read
          runs,     \* the root and its subagents, in order of creation
          edits, spawns, rounds

vars == <<files, cache, loading, seen, runs, edits, spawns, rounds>>

TypeOK ==
    /\ files \in [{"user", "project", "assistant"} -> Contents]
    /\ Len(loading) <= 3 /\ Len(seen) = Len(loading)
    /\ \A r \in DOMAIN runs : runs[r].depth \in 0..MAX_DEPTH /\ runs[r].parent < r

-----------------------------------------------------------------------------
\* A profile that cannot be read or parsed allows nothing and is not cached.
Parsed(c) == IF c \in DOMAIN Profile THEN Profile[c] ELSE default

\* A bound: a file changes before or during a load and a new load starts
\* before the tree grows; nothing a tree does reads the files or the cache.
EditProfile(l, c) ==
    /\ edits < MaxEdits /\ runs = <<>>
    /\ files[l] # c
    /\ files' = [files EXCEPT ![l] = c]
    /\ edits' = edits + 1
    /\ UNCHANGED <<cache, loading, seen, runs, spawns, rounds>>

CacheByPath(l, c) == <<l>>
CacheKey(l, c) == <<l, c>>

\* load_profile: read and hash the file, answer from the cache, else parse.
load_profile ==
    /\ Len(loading) < 3
    /\ LET l   == Layers[Len(loading) + 1]
           c   == files[l]
           key == CacheKey(l, c)
           set == IF key \in DOMAIN cache THEN cache[key] ELSE Parsed(c)
       IN  /\ loading' = Append(loading, set)
           /\ seen' = Append(seen, c)
           /\ cache' = IF c \in DOMAIN Profile /\ key \notin DOMAIN cache
                       THEN [k \in DOMAIN cache \union {key} |-> IF k = key THEN set ELSE cache[k]]
                       ELSE cache
    /\ UNCHANGED <<files, runs, edits, spawns, rounds>>

NoSpending == [x \in Spending |-> 0]

\* child_id is the key of the run in its parent's ledger, which try_spawn draws
\* and the handle carries; it is not the id that Run::new_subagent draws for
\* the row of the child (run.rs:145).  A caller of the ledger uses the handle's.
NewRun(parent, child_id, depth, specialist, budget, permissions, allowed) ==
    [parent |-> parent, child_id |-> child_id, depth |-> depth, specialist |-> specialist,
     subagent_count |-> 0, budget |-> budget, spent |-> NoSpending,
     permissions |-> permissions, allowed |-> allowed, ledger |-> <<>>]

\* The intersection of the three sets is the root's.
StartRoot ==
    /\ Len(loading) = 3 /\ runs = <<>>
    /\ runs' = <<NewRun(0, 0, 0, "none", Budget, merge3(loading[1], loading[2], loading[3]),
                        Registered)>>
    /\ UNCHANGED <<files, cache, loading, seen, edits, spawns, rounds>>

\* The next load of the same process, after the root ended.
Reload ==
    /\ runs # <<>> /\ spawns = 0 /\ rounds = 0
    /\ loading' = <<>> /\ seen' = <<>> /\ runs' = <<>>
    /\ UNCHANGED <<files, cache, edits, spawns, rounds>>

-----------------------------------------------------------------------------
remaining(r) ==
    [x \in Axes |-> IF x \notin Spending THEN runs[r].budget[x]
                    ELSE IF runs[r].spent[x] >= runs[r].budget[x] THEN 0
                    ELSE runs[r].budget[x] - runs[r].spent[x]]

Fits(allocation, available) == \A x \in Axes : allocation[x] <= available[x]

\* The sum of what the children numbered 1, 2 and so on are allocated.
SumOf(amount) ==
    LET sum[n \in 0..MAX_SUBAGENTS_PER_RUN] == IF n = 0 THEN 0 ELSE sum[n-1] + amount[n]
    IN  sum[MAX_SUBAGENTS_PER_RUN]

Amounts(ledger, x) ==
    [n \in 1..MAX_SUBAGENTS_PER_RUN |-> IF n \in DOMAIN ledger THEN ledger[n].allocation[x] ELSE 0]

total_allocated(r) == [x \in Axes |-> SumOf(Amounts(runs[r].ledger, x))]

\* The ledger would hold the new allocation whatever it holds already.
LedgerTakesAny(r, allocation) == Fits(allocation, remaining(r))

\* try_record: what is alive and the new allocation fit in what is left.
LedgerTakes(r, allocation) ==
    LET total == total_allocated(r)
    IN  Fits([x \in Axes |-> total[x] + allocation[x]], remaining(r))

\* Mutant of the next: the lists are applied to all the registered tools.
AllowedOfRegistry(parent_allowed, s) ==
    {t \in Registered \ Specialists[s].denied_tools :
        Specialists[s].allowed_tools = {} \/ t \in Specialists[s].allowed_tools}

\* A specialist that lists no tools may use all of its parent's.
compute_child_allowed_for_run(parent_allowed, s) ==
    {t \in parent_allowed \ Specialists[s].denied_tools :
        Specialists[s].allowed_tools = {} \/ t \in Specialists[s].allowed_tools}

\* The gate's conditions, in its order; a name nobody registered is refused.
MaySpawn(p, allocation) ==
    /\ runs[p].depth + 1 <= MAX_DEPTH
    /\ runs[p].subagent_count + 1 <= MAX_SUBAGENTS_PER_RUN
    /\ Fits(allocation, remaining(p))
    /\ LedgerTakes(p, allocation)

\* The parent after the ledger and the counter.
Charged(p, allocation) ==
    LET child_id == runs[p].subagent_count + 1
        ledger   == runs[p].ledger
    IN  [runs[p] EXCEPT
           !.subagent_count = child_id,
           !.ledger = [n \in DOMAIN ledger \union {child_id} |->
                          IF n = child_id THEN [allocation |-> allocation, spent |-> NoSpending]
                                          ELSE ledger[n]]]

\* A child no tool is left for is refused after its parent was charged, and
\* nobody knows its id to release it.
try_spawn(p, s, allocation) ==
    /\ spawns < MaxSpawns
    /\ spawns' = spawns + 1
    /\ MaySpawn(p, allocation)
    /\ LET mine == compute_child_allowed_for_run(runs[p].allowed, s)
       IN  IF mine = {} /\ runs[p].allowed # {}
           THEN runs' = [runs EXCEPT ![p] = Charged(p, allocation)]
           ELSE runs' = Append([runs EXCEPT ![p] = Charged(p, allocation)],
                               NewRun(p, runs[p].subagent_count + 1, runs[p].depth + 1, s,
                                      allocation, runs[p].permissions, mine))
    /\ UNCHANGED <<files, cache, loading, seen, edits, rounds>>

-----------------------------------------------------------------------------
Plus(spent, delta) == [x \in Spending |-> spent[x] + delta[x]]

\* What a round spends: a unit of each axis.
Delta == [x \in Spending |-> 1]

\* A child the ledger does not know is left out.
record_spent(ledger, child_id) ==
    [n \in DOMAIN ledger |->
        IF n = child_id THEN [ledger[n] EXCEPT !.spent = Plus(@, Delta)] ELSE ledger[n]]

\* A run within its steps records what the round spent; for a child its
\* parent and the parent's ledger record it too.
Round(r) ==
    /\ rounds < MaxRounds
    /\ rounds' = rounds + 1
    /\ runs[r].spent["max_steps"] < runs[r].budget["max_steps"]
    /\ LET p == runs[r].parent
       IN  runs' = [k \in DOMAIN runs |->
              IF k = r THEN [runs[k] EXCEPT !.spent = Plus(@, Delta)]
              ELSE IF k = p
                   THEN [runs[k] EXCEPT !.spent = Plus(@, Delta),
                                        !.ledger = record_spent(@, runs[r].child_id)]
              ELSE runs[k]]
    /\ UNCHANGED <<files, cache, loading, seen, edits, spawns>>

\* The child ended: what it was given goes back to its parent.
release(c) ==
    LET p == runs[c].parent
    IN  /\ p # 0
        /\ runs[c].child_id \in DOMAIN runs[p].ledger
        /\ runs' = [runs EXCEPT ![p].ledger = [n \in DOMAIN @ \ {runs[c].child_id} |-> @[n]]]
        /\ UNCHANGED <<files, cache, loading, seen, edits, spawns, rounds>>

\* The three files start with a profile each; an edit may remove one.
Init ==
    /\ files \in [{"user", "project", "assistant"} -> DOMAIN Profile]
    /\ cache = <<>> /\ loading = <<>> /\ seen = <<>> /\ runs = <<>>
    /\ edits = 0 /\ spawns = 0 /\ rounds = 0

Next ==
    \/ \E l \in DOMAIN files, c \in Contents : EditProfile(l, c)
    \/ load_profile
    \/ StartRoot
    \/ Reload
    \/ \E p \in DOMAIN runs, s \in DOMAIN Specialists, a \in Allocations : try_spawn(p, s, a)
    \/ \E r \in DOMAIN runs : Round(r)
    \/ \E c \in DOMAIN runs : release(c)

Spec == Init /\ [][Next]_vars

-----------------------------------------------------------------------------
\* A profile covers a set that exceeds it on no axis and whose rules each
\* narrow one the profile has for their repository.
Covers(profile, set) ==
    /\ \A x \in LevelAxes : set.level[x] <= profile.level[x]
    /\ set.on \subseteq profile.on
    /\ set.network_allowlist \subseteq profile.network_allowlist
    /\ \A i \in DOMAIN set.github_repos : \E j \in DOMAIN profile.github_repos :
          LET mine == set.github_repos[i]
              its  == profile.github_repos[j]
          IN  /\ mine.repo = its.repo
              /\ mine.branches \subseteq its.branches /\ mine.operacoes \subseteq its.operacoes

\* No run of the tree may do what one of the three profiles, as its root read
\* it, does not allow: an edit between two reads, a cached profile and two
\* levels of subagents included (permission.rs merge, permission_loader.rs,
\* subagent_runner.rs).
WithinLayers ==
    \A r \in DOMAIN runs : \A l \in DOMAIN seen : Covers(Parsed(seen[l]), runs[r].permissions)

\* Whatever was spawned, refused, spent and released before, what a parent
\* gave to children that are alive never sums to more than its own budget
\* (subagent_budget.rs try_record).
LedgerWithinBudget ==
    \A r \in DOMAIN runs : Fits(total_allocated(r), runs[r].budget)

\* The context in which the executor validates a call of run r: it gives no
\* parent's permissions, so that check_subagent_invariant compares nothing, and
\* its calls carry no approval.
ContextOf(r) ==
    [registry |-> [t \in Registered |-> "ok"], allowed |-> runs[r].allowed,
     permissions |-> runs[r].permissions, parent |-> <<>>]

Calls == [tool : Registered, wellFormed : BOOLEAN, approval : {"none"}]

\* A run, its parent, and so on up to the root: the least set that has the run
\* and the parent of every member.
Lineage(r) ==
    {a \in DOMAIN runs :
        \A up \in SUBSET DOMAIN runs :
            r \in up /\ (\A x \in up : runs[x].parent # 0 => runs[x].parent \in up) => a \in up}

\* The lists of a specialist leave a tool: it is not denied, and listed if any is.
Grants(s, t) == /\ t \notin Specialists[s].denied_tools
                /\ Specialists[s].allowed_tools # {} => t \in Specialists[s].allowed_tools

\* A call the executor runs, in whatever depth, only reads; every profile as the
\* root of its tree read it lets it read; and everybody from the root down may
\* use its tool: no specialist on the way denies it or leaves it out, whoever
\* is below (subagent_runner.rs, permission_loader.rs, executor.rs).
CallsAuthorised ==
    \A r \in DOMAIN runs, call \in Calls :
        validate_tool_call(ContextOf(r), call) = "approved" =>
            /\ Catalog[call.tool].requires = {"file_read"}
            /\ \A l \in DOMAIN seen : Parsed(seen[l]).level["file_read"] > 0
            /\ \A a \in Lineage(r) :
                   /\ call.tool \in runs[a].allowed
                   /\ runs[a].parent # 0 => Grants(runs[a].specialist, call.tool)

=============================================================================
