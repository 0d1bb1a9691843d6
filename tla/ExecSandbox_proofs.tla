-------------------------- MODULE ExecSandbox_proofs ---------------------------
(***************************************************************************)
(* What a bootstrap leaves on the disk, for every archive and every number *)
(* of new pins, and what a call of an exec tool reports and leaves behind, *)
(* for every size of the pipe and of the cut, every set of connections,    *)
(* every allowlist and whatever a bootstrap does meanwhile.                *)
(***************************************************************************)
EXTENDS ExecSandbox, TLAPS

--------------------------------------------------------------------------------
(* The runtimes. *)

(* Where the bootstrap is and what is on the disk. *)
BootTypeOK ==
  /\ at \in {"off", "look", "clear", "fetch", "check", "extract", "copy", "note", "sweep"}
  /\ copied \in Nat
  /\ tree \in [Contents -> {"absent", "cut", "old", "new"}]
  /\ manifest \in {"none", "stale", "pinned"}

(* Every file is the one of the pinned archive. *)
AllNew == \A f \in Contents : tree[f] = "new"

(* From the moment the bootstrap may touch the tree nothing claims that it *)
(* is whole; the files extracted so far are, and when the manifest is      *)
(* written all are.                                                        *)
InstallInv ==
  /\ at # "off" => answer = "none"
  /\ at \in {"clear", "fetch", "check", "extract", "copy", "note"} => manifest # "pinned"
  /\ at \in {"extract", "copy"} => copied <= Len(Archive)
  /\ at = "extract" => \A n \in 1 .. copied : tree[Archive[n]] = "new"
  /\ at = "copy" =>
       /\ copied < Len(Archive)
       /\ \A n \in 1 .. copied : tree[Archive[n]] = "new" \/ Archive[n] = Archive[copied + 1]
  /\ at \in {"note", "sweep"} => AllNew
  /\ at \in {"look", "clear", "fetch", "check"} => copied = 0

BootInv == BootTypeOK /\ InstallInv /\ RuntimeWhole

(* The disk of a fresh installation. *)
LEMMA BootInitInd == BootInit => BootInv
  BY DEF BootInit, BootInv, BootTypeOK, InstallInv, RuntimeWhole

(* The archive is a sequence of files, each of which is in it. *)
LEMMA ArchiveFacts ==
  /\ Len(Archive) \in Nat
  /\ \A n \in 1 .. Len(Archive) : Archive[n] \in Contents
  /\ \A f \in Contents : \E n \in 1 .. Len(Archive) : f = Archive[n]
  /\ Exe \in Contents
  BY RuntimesAssumption DEF Contents

(* Every step of a bootstrap keeps BootInv. *)
LEMMA BootNextInd == BootInv /\ [BootNext]_bootVars => BootInv'
<1> SUFFICES ASSUME BootInv, [BootNext]_bootVars PROVE BootInv'
  OBVIOUS
<1> USE DEF BootInv, BootTypeOK, InstallInv, RuntimeWhole, AllNew, End, Download
<1>0. /\ Len(Archive) \in Nat
      /\ \A n \in 1 .. Len(Archive) : Archive[n] \in Contents
      /\ \A f \in Contents : \E n \in 1 .. Len(Archive) : f = Archive[n]
      /\ Exe \in Contents
  BY ArchiveFacts
<1>1. CASE Begin
  BY <1>1 DEF Begin
<1>2. CASE Look
  <2>1. ~ Hit => manifest # "pinned"
    BY <1>0 DEF Hit, Seen
  <2>2. CASE Hit /\ End("ok")
    BY <1>2, <2>2 DEF Look, Hit
  <2>3. CASE Spoilt /\ at' = "clear" /\ UNCHANGED answer
    BY <1>2, <2>1, <2>3 DEF Look, Spoilt
  <2>4. CASE ~ Hit /\ Download
    BY <1>2, <2>1, <2>4 DEF Look
  <2> QED
    BY <1>2, <2>2, <2>3, <2>4 DEF Look
<1>3. CASE Clear \/ Cleared
  BY <1>3 DEF Clear, Cleared
<1>4. CASE Fetch \/ Compare
  BY <1>4 DEF Fetch, Compare
<1>5. CASE CreateFile
  BY <1>0, <1>5 DEF CreateFile
<1>6. CASE CopyFile
  <2>1. \A n \in 1 .. copied + 1 : tree'[Archive[n]] = "new"
    BY <1>0, <1>6 DEF CopyFile
  <2> QED
    BY <1>0, <1>6, <2>1 DEF CopyFile
<1>7. CASE Validate
  BY <1>0, <1>7 DEF Validate
<1>8. CASE WriteManifest \/ Sweep \/ StepFails \/ AppEnds
  BY <1>8 DEF WriteManifest, Sweep, StepFails, AppEnds
<1>9. CASE Repin
  BY <1>9 DEF Repin
<1>10. CASE UNCHANGED bootVars
  BY <1>10 DEF bootVars
<1> QED
  BY <1>1, <1>2, <1>3, <1>4, <1>5, <1>6, <1>7, <1>8, <1>9, <1>10 DEF BootNext

--------------------------------------------------------------------------------
(* The call. *)

(* The variables of the call that the argument looks at. *)
CallTypeOK ==
  /\ step \in {"idle", "proxied", "created", "assigned", "running", "returned"}
  /\ child \in {"none", "suspended", "alive", "exited"}
  /\ heir \in {"none", "alive", "dead"}
  /\ job \in {"none", "open", "closed"}
  /\ exit \in [code : {0, 1}, late : BOOLEAN, own : BOOLEAN]
  /\ jailed \subseteq {"child", "heir"}
  /\ wait \in {"none", "waiting", "killing", "code", "timeout", "error"}
  /\ deadline \in BOOLEAN
  /\ proxy \in {"none", "up", "stopping", "down"}

(* How far execute() is with the processes: nothing runs outside of the    *)
(* job, and nothing before or after the wait.                              *)
StageInv ==
  /\ step \in {"idle", "proxied"} => child = "none"
  /\ step \in {"created", "assigned"} => child = "suspended"
  /\ step = "running" => child \in {"alive", "exited"} /\ wait # "none"
  /\ step = "returned" => child \in {"none", "exited"} /\ heir # "alive" /\ proxy # "up"
  /\ step \in {"assigned", "running"} => job = "open" /\ "child" \in jailed
  /\ heir # "none" => step \in {"running", "returned"} /\ "heir" \in jailed
  /\ step \notin {"running", "returned"} => wait = "none"
  /\ step = "idle" => proxy = "none"

(* What is known of the end of the child once the wait has a verdict.      *)
VerdictInv ==
  /\ wait = "waiting" => step = "running" /\ (child = "exited" => exit.own)
  /\ wait = "code" => child = "exited" /\ exit.own /\ ~ exit.late
  /\ wait = "timeout" => child = "exited" /\ exit.late
  /\ wait = "error" => child = "exited"
  /\ wait = "killing" => step = "running"

(* What a result says of the end of the child.                             *)
ResultInv ==
  step = "returned" =>
    /\ result \in {"ok", "failed"} => /\ exit.own /\ ~ exit.late
                                      /\ result = "ok" <=> exit.code = 0
    /\ result = "timeout" => exit.late

CallInv == CallTypeOK /\ StageInv /\ VerdictInv /\ ResultInv

(* What was written to a stream is in its pipe or with its reader, until   *)
(* the reading is cut or fails.                                            *)
StreamOK(how, inPipe, wrote, kept) ==
  /\ how = "none" => inPipe = 0 /\ wrote = 0 /\ kept = 0
  /\ how = "open" => wrote = kept + inPipe
  /\ how = "over" => kept = wrote \/ kept = Cap

(* The streams; both are over when the call reports an exit code.          *)
OutputInv ==
  /\ piped \in [Streams -> Nat] /\ written \in [Streams -> Nat] /\ got \in [Streams -> Nat]
  /\ reader \in [Streams -> {"none", "open", "over", "broken"}]
  /\ \A s \in Streams : StreamOK(reader[s], piped[s], written[s], got[s])
  /\ step \notin {"running", "returned"} => \A s \in Streams : reader[s] = "none"
  /\ step = "returned" /\ result \in {"ok", "failed"} =>
       \A s \in Streams : reader[s] \in {"over", "broken"}

(* Before the call. *)
LEMMA CallInitInd == Init => CallInv /\ OutputInv
<1> SUFFICES ASSUME Init PROVE CallInv /\ OutputInv
  OBVIOUS
<1>1. exit \in [code : {0, 1}, late : BOOLEAN, own : BOOLEAN]
  BY DEF Init, NotYet
<1>2. OutputInv
  BY DEF Init, OutputInv, StreamOK
<1> QED
  BY <1>1, <1>2 DEF Init, CallInv, CallTypeOK, StageInv, VerdictInv, ResultInv

(* The start of a call, and what the processes and the clock do.           *)
LEMMA StartSteps ==
  ASSUME CallInv, \/ Refuse \/ StartProxy \/ Create \/ Assign \/ Resume \/ SpawnFails
                  \/ Processes \/ DeadlinePasses
  PROVE  CallInv'
<1> USE DEF CallInv, CallTypeOK, StageInv, VerdictInv, ResultInv, Alive, Return,
            processVars, outputVars, callVars, proxyVars, DropGuard, Reaped
<1>1. CASE Refuse
  BY <1>1 DEF Refuse
<1>2. CASE StartProxy
  BY <1>2 DEF StartProxy
<1>3. CASE Create
  BY <1>3 DEF Create
<1>4. CASE Assign
  BY <1>4 DEF Assign
<1>5. CASE Resume
  BY <1>5 DEF Resume
<1>6. CASE SpawnFails
  BY <1>6 DEF SpawnFails
<1>7. CASE Fork
  BY <1>7 DEF Fork
<1>8. CASE \E p \in {"child", "heir"} : Exit(p)
  <2> PICK p \in {"child", "heir"} : Exit(p)
    BY <1>8
  <2>1. CASE p = "child"
    <3>1. PICK code \in {0, 1} : exit' = [code |-> code, late |-> deadline, own |-> TRUE]
      BY <2>1 DEF Exit
    <3>2. /\ exit' \in [code : {0, 1}, late : BOOLEAN, own : BOOLEAN]
          /\ exit'.own
      BY <3>1
    <3> QED
      BY <2>1, <3>2 DEF Exit
  <2>2. CASE p = "heir"
    BY <2>2 DEF Exit
  <2> QED
    BY <2>1, <2>2
<1>9. CASE \E p \in {"child", "heir"}, s \in Streams : CloseOutput(p, s) \/ Write(p, s)
  BY <1>9 DEF CloseOutput, Write
<1>10. CASE DeadlinePasses
  BY <1>10 DEF DeadlinePasses
<1> QED
  BY <1>1, <1>2, <1>3, <1>4, <1>5, <1>6, <1>7, <1>8, <1>9, <1>10 DEF Processes

(* collect_output and the end.                                             *)
LEMMA CollectSteps ==
  ASSUME CallInv, \/ \E s \in Streams : Read(s) \/ ReadEnd(s) \/ ReadBreaks(s)
                  \/ Verdict \/ Kill \/ Finish
  PROVE  CallInv'
<1> USE DEF CallInv, CallTypeOK, StageInv, VerdictInv, ResultInv, Return,
            processVars, callVars, proxyVars, DropGuard, Reaped
<1>1. CASE \E s \in Streams : Read(s) \/ ReadEnd(s) \/ ReadBreaks(s)
  <2>1. UNCHANGED << processVars, callVars, proxyVars >>
    BY <1>1 DEF Read, ReadEnd, ReadBreaks
  <2> QED
    BY <2>1
<1>2. CASE Verdict
  BY <1>2 DEF Verdict, ByExitTime, outputVars
<1>3. CASE Kill
  <2>1. CASE child = "alive"
    <3>1. exit' = [code |-> 1, late |-> TRUE, own |-> FALSE]
      BY <1>3, <2>1 DEF Kill
    <3>2. exit' \in [code : {0, 1}, late : BOOLEAN, own : BOOLEAN] /\ exit'.late
      BY <3>1
    <3> QED
      BY <1>3, <2>1, <3>2 DEF Kill
  <2>2. CASE child # "alive"
    BY <1>3, <2>2 DEF Kill
  <2> QED
    BY <2>1, <2>2
<1>4. CASE Finish
  BY <1>4 DEF Finish, CloseJob
<1> QED
  BY <1>1, <1>2, <1>3, <1>4

(* A step that leaves the streams alone and reports no exit code.          *)
LEMMA OutputFrame ==
  ASSUME OutputInv, UNCHANGED outputVars,
         step' \notin {"running", "returned"} => step \notin {"running", "returned"},
         step' = "returned" /\ result' \in {"ok", "failed"} => step = "returned" /\ result' = result
  PROVE  OutputInv'
  BY DEF OutputInv, outputVars

(* A step of one stream, while the call runs or after its end.             *)
LEMMA OneStream ==
  ASSUME OutputInv, NEW s \in Streams, reader[s] = "open", UNCHANGED <<step, result>>,
         NEW how \in {"open", "over", "broken"}, NEW inPipe \in Nat, NEW wrote \in Nat,
         NEW kept \in Nat, StreamOK(how, inPipe, wrote, kept),
         reader' = [reader EXCEPT ![s] = how], piped' = [piped EXCEPT ![s] = inPipe],
         written' = [written EXCEPT ![s] = wrote], got' = [got EXCEPT ![s] = kept]
  PROVE  OutputInv'
<1>1. ASSUME NEW t \in Streams
      PROVE  StreamOK(reader'[t], piped'[t], written'[t], got'[t])
  <2>1. CASE t = s
    BY <2>1 DEF OutputInv
  <2>2. CASE t # s
    BY <2>2 DEF OutputInv
  <2> QED
    BY <2>1, <2>2
<1>2. /\ piped' \in [Streams -> Nat] /\ written' \in [Streams -> Nat] /\ got' \in [Streams -> Nat]
      /\ reader' \in [Streams -> {"none", "open", "over", "broken"}]
  BY DEF OutputInv
<1> QED
  BY <1>1, <1>2 DEF OutputInv

(* Every step of the call keeps the account of the streams.                *)
LEMMA OutputSteps ==
  ASSUME OutputInv, Execute \/ Processes \/ DeadlinePasses
  PROVE  OutputInv'
<1>0. Cap \in Nat
  BY ExecAssumption
<1>a. ASSUME NEW s \in Streams
      PROVE  /\ piped[s] \in Nat /\ written[s] \in Nat /\ got[s] \in Nat
             /\ StreamOK(reader[s], piped[s], written[s], got[s])
             /\ piped = [piped EXCEPT ![s] = @] /\ written = [written EXCEPT ![s] = @]
             /\ got = [got EXCEPT ![s] = @] /\ reader = [reader EXCEPT ![s] = @]
  BY <1>a DEF OutputInv
<1>1. CASE Refuse \/ StartProxy \/ Create \/ Assign \/ SpawnFails
  BY <1>1, OutputFrame DEF Refuse, StartProxy, Create, Assign, SpawnFails, Return
<1>2. CASE Resume
  <2>1. \A s \in Streams : StreamOK("open", piped[s], written[s], got[s])
    BY <1>2 DEF Resume, OutputInv, StreamOK
  <2> QED
    BY <1>2, <2>1 DEF Resume, OutputInv
<1>3. CASE \/ Fork \/ DeadlinePasses \/ Verdict \/ Kill
           \/ \E p \in {"child", "heir"} : Exit(p) \/ \E s \in Streams : CloseOutput(p, s)
  BY <1>3, OutputFrame DEF Fork, DeadlinePasses, Verdict, Kill, Exit, CloseOutput, callVars
<1>4. ASSUME NEW p \in {"child", "heir"}, NEW s \in Streams, Write(p, s) PROVE OutputInv'
  <2>1. StreamOK("open", piped[s] + 1, written[s] + 1, got[s])
    BY <1>a, <1>4 DEF Write, StreamOK
  <2>2. /\ reader[s] = "open" /\ UNCHANGED <<step, result>>
        /\ reader' = [reader EXCEPT ![s] = "open"]
        /\ piped' = [piped EXCEPT ![s] = piped[s] + 1]
        /\ written' = [written EXCEPT ![s] = written[s] + 1]
        /\ got' = [got EXCEPT ![s] = got[s]]
    BY <1>a, <1>4 DEF Write, callVars
  <2>3. piped[s] + 1 \in Nat /\ written[s] + 1 \in Nat /\ got[s] \in Nat
    BY <1>a
  <2> QED
    BY <2>1, <2>2, <2>3, OneStream
<1>5. ASSUME NEW s \in Streams, Read(s) PROVE OutputInv'
  <2> PICK n \in 1 .. piped[s] :
        IF got[s] + n > Cap
        THEN got' = [got EXCEPT ![s] = Cap] /\ Over(s, "over")
        ELSE /\ got' = [got EXCEPT ![s] = @ + n] /\ piped' = [piped EXCEPT ![s] = @ - n]
             /\ UNCHANGED reader
    BY <1>5 DEF Read
  <2>0. reader[s] = "open" /\ UNCHANGED <<step, result>> /\ UNCHANGED written
    BY <1>5 DEF Read, callVars
  <2>1. CASE got[s] + n > Cap
    <3>1. StreamOK("over", 0, written[s], Cap)
      BY DEF StreamOK
    <3>2. /\ reader' = [reader EXCEPT ![s] = "over"] /\ piped' = [piped EXCEPT ![s] = 0]
          /\ written' = [written EXCEPT ![s] = written[s]] /\ got' = [got EXCEPT ![s] = Cap]
      BY <1>a, <2>0, <2>1 DEF Over
    <3>3. written[s] \in Nat
      BY <1>a
    <3> QED
      BY <1>0, <2>0, <3>1, <3>2, <3>3, OneStream
  <2>2. CASE ~ (got[s] + n > Cap)
    <3>1. got[s] + n \in Nat /\ piped[s] - n \in Nat
      BY <1>a
    <3>2. StreamOK("open", piped[s] - n, written[s], got[s] + n)
      BY <1>a, <2>0 DEF StreamOK
    <3>3. /\ reader' = [reader EXCEPT ![s] = "open"]
          /\ piped' = [piped EXCEPT ![s] = piped[s] - n]
          /\ written' = [written EXCEPT ![s] = written[s]]
          /\ got' = [got EXCEPT ![s] = got[s] + n]
      BY <1>a, <2>0, <2>2
    <3>4. written[s] \in Nat
      BY <1>a
    <3> QED
      BY <2>0, <3>1, <3>2, <3>3, <3>4, OneStream
  <2> QED
    BY <2>1, <2>2
<1>6. ASSUME NEW s \in Streams, ReadEnd(s) PROVE OutputInv'
  <2>1. StreamOK("over", 0, written[s], got[s])
    BY <1>a, <1>6 DEF ReadEnd, StreamOK
  <2>2. /\ reader[s] = "open" /\ UNCHANGED <<step, result>>
        /\ reader' = [reader EXCEPT ![s] = "over"] /\ piped' = [piped EXCEPT ![s] = 0]
        /\ written' = [written EXCEPT ![s] = written[s]] /\ got' = [got EXCEPT ![s] = got[s]]
    BY <1>a, <1>6 DEF ReadEnd, Over, callVars
  <2>3. written[s] \in Nat /\ got[s] \in Nat
    BY <1>a
  <2> QED
    BY <2>1, <2>2, <2>3, OneStream
<1>7. ASSUME NEW s \in Streams, ReadBreaks(s) PROVE OutputInv'
  <2>1. StreamOK("broken", 0, written[s], got[s])
    BY DEF StreamOK
  <2>2. /\ reader[s] = "open" /\ UNCHANGED <<step, result>>
        /\ reader' = [reader EXCEPT ![s] = "broken"] /\ piped' = [piped EXCEPT ![s] = 0]
        /\ written' = [written EXCEPT ![s] = written[s]] /\ got' = [got EXCEPT ![s] = got[s]]
    BY <1>a, <1>7 DEF ReadBreaks, Over, callVars
  <2>3. written[s] \in Nat /\ got[s] \in Nat
    BY <1>a
  <2> QED
    BY <2>1, <2>2, <2>3, OneStream
<1>8. CASE Finish
  BY <1>8 DEF Finish, Return, OutputInv, outputVars
<1> QED
  BY <1>1, <1>2, <1>3, <1>4, <1>5, <1>6, <1>7, <1>8 DEF Execute, Processes

(* The connections leave the call alone.                                   *)
LEMMA CallFrame ==
  ASSUME CallInv, OutputInv, UNCHANGED << processVars, outputVars, callVars >>,
         proxy' = proxy \/ (proxy = "stopping" /\ proxy' = "down")
  PROVE  CallInv' /\ OutputInv'
<1>1. CallInv'
  BY DEF CallInv, CallTypeOK, StageInv, VerdictInv, ResultInv, processVars, callVars
<1>2. OutputInv'
  BY DEF OutputInv, outputVars, callVars
<1> QED
  BY <1>1, <1>2

--------------------------------------------------------------------------------
(* The connections. *)

(* Every host a request may name, and every log. *)
AnyRequest == Requests \cup {Idle.req}
AnyHost    == {r.host : r \in AnyRequest} \cup {r.target : r \in AnyRequest}
Logs       == {<<>>} \cup {<<Entry(d, h)>> : d \in {"allow", "deny"}, h \in AnyHost}

(* What is known of a connection. *)
ConnRecord ==
  [ phase : {"none", "queued", "accepted", "dialing", "asking", "answering", "tunnel", "closed"},
    req : AnyRequest, reached : SUBSET AnyHost, redirected : BOOLEAN,
    passed : BOOLEAN, log : Logs ]

(* A connection by its phase: the host was looked up before anything is    *)
(* reached, and the record written before a tunnel opens.                  *)
ConnOK(x) ==
  /\ x.phase \in {"none", "queued", "accepted", "dialing", "asking", "answering"} => x.log = <<>>
  /\ x.phase \in {"none", "queued", "accepted", "dialing"} => x.reached = {}
  /\ x.phase \in {"none", "queued", "accepted", "dialing", "asking"} => ~ x.passed
  /\ x.phase \in {"dialing", "asking", "answering", "tunnel"} => contains(x.req.host)
  /\ x.phase = "asking" => x.req.kind = "http"
  /\ x.phase \in {"asking", "answering", "tunnel"} => x.reached # {}
  /\ x.phase = "tunnel" => x.log = <<Entry("allow", x.req.host)>>
  /\ x.phase = "closed" /\ x.passed => x.reached # {} /\ x.log = <<Entry("allow", x.req.host)>>
  /\ x.reached # {} => contains(x.req.host)
  /\ x.reached \subseteq {x.req.host} \/ Unseen(x)

ConnInv == conn \in [Conns -> ConnRecord] /\ \A c \in Conns : ConnOK(conn[c])

(* No connection yet. *)
LEMMA ConnInitInd == Init => ConnInv
<1>1. Idle \in ConnRecord /\ ConnOK(Idle)
  BY DEF ConnRecord, ConnOK, Idle, AnyRequest, Logs
<1> QED
  BY <1>1 DEF Init, ConnInv

(* What a step leaves of a connection. *)
To(y, p)        == [y EXCEPT !.phase = p]
Logged(y, d, p) == [y EXCEPT !.log = Append(y.log, Entry(d, y.req.host)), !.phase = p]
Reaching(y, h)  == [y EXCEPT !.reached = y.reached \cup {h}]

(* The hosts of a connection are among those that are counted. *)
LEMMA HostTyped ==
  ASSUME NEW y \in ConnRecord
  PROVE  y.req.host \in AnyHost /\ y.req.target \in AnyHost
  BY DEF ConnRecord, AnyHost

(* A change of phase. *)
LEMMA ToTyped ==
  ASSUME NEW y \in ConnRecord,
         NEW p \in {"queued", "accepted", "dialing", "asking", "answering", "tunnel", "closed"}
  PROVE  /\ To(y, p) \in ConnRecord /\ To(y, p).phase = p
         /\ To(y, p).req = y.req /\ To(y, p).passed = y.passed /\ To(y, p).log = y.log
         /\ To(y, p).reached = y.reached /\ To(y, p).redirected = y.redirected
  BY DEF ConnRecord, To

(* A record. *)
LEMMA LoggedTyped ==
  ASSUME NEW y \in ConnRecord, y.log = <<>>,
         NEW d \in {"allow", "deny"}, NEW p \in {"tunnel", "closed"}
  PROVE  /\ Logged(y, d, p) \in ConnRecord /\ Logged(y, d, p).phase = p
         /\ Logged(y, d, p).req = y.req /\ Logged(y, d, p).passed = y.passed
         /\ Logged(y, d, p).log = <<Entry(d, y.req.host)>>
         /\ Logged(y, d, p).reached = y.reached /\ Logged(y, d, p).redirected = y.redirected
<1> DEFINE l == <<Entry(d, y.req.host)>>
<1>1. l \in Logs
  BY HostTyped DEF Logs
<1>2. Append(y.log, Entry(d, y.req.host)) = l
  OBVIOUS
<1>3. Logged(y, d, p) = [y EXCEPT !.log = l, !.phase = p]
  BY <1>2 DEF Logged
<1> HIDE DEF l
<1>4. /\ Logged(y, d, p) \in ConnRecord /\ Logged(y, d, p).phase = p
      /\ Logged(y, d, p).req = y.req /\ Logged(y, d, p).passed = y.passed
      /\ Logged(y, d, p).log = l
      /\ Logged(y, d, p).reached = y.reached /\ Logged(y, d, p).redirected = y.redirected
  BY <1>1, <1>3 DEF ConnRecord
<1> QED
  BY <1>4 DEF l

(* A host is reached. *)
LEMMA ReachingTyped ==
  ASSUME NEW y \in ConnRecord, NEW h \in AnyHost
  PROVE  /\ Reaching(y, h) \in ConnRecord /\ Reaching(y, h).phase = y.phase
         /\ Reaching(y, h).req = y.req /\ Reaching(y, h).passed = y.passed
         /\ Reaching(y, h).log = y.log /\ Reaching(y, h).redirected = y.redirected
         /\ Reaching(y, h).reached = y.reached \cup {h}
  BY DEF ConnRecord, Reaching

(* A step of one connection that keeps its record right.                   *)
LEMMA OneConn ==
  ASSUME ConnInv, NEW c \in Conns, NEW x \in ConnRecord, ConnOK(x),
         conn' = [conn EXCEPT ![c] = x]
  PROVE  ConnInv'
  BY DEF ConnInv

(* Every step keeps ConnInv. *)
LEMMA ConnSteps ==
  ASSUME ConnInv, Next
  PROVE  ConnInv'
<1>1. ASSUME NEW c \in Conns,
             \/ Connect(c) \/ Accept(c) \/ HandleConnection(c) \/ DialFails(c) \/ Established(c)
             \/ Asked(c) \/ Redirected(c) \/ Answered(c) \/ Forwarded(c) \/ Transfer(c)
             \/ TunnelEnds(c)
      PROVE  ConnInv'
  <2> DEFINE y == conn[c]
  <2>0. y \in ConnRecord /\ ConnOK(y) /\ conn \in [Conns -> ConnRecord]
    BY DEF ConnInv
  <2>a. ASSUME NEW p \in {"queued", "accepted", "dialing", "asking", "answering", "tunnel", "closed"},
               Now(c, p), ConnOK(To(y, p))
        PROVE  ConnInv'
    <3>1. conn' = [conn EXCEPT ![c] = To(y, p)]
      BY <2>0, <2>a DEF Now, To
    <3> QED
      BY <2>0, <2>a, <3>1, ToTyped, OneConn
  <2>b. ASSUME NEW d \in {"allow", "deny"}, NEW p \in {"tunnel", "closed"},
               Record(c, d, p), y.log = <<>>, ConnOK(Logged(y, d, p))
        PROVE  ConnInv'
    <3>1. conn' = [conn EXCEPT ![c] = Logged(y, d, p)]
      BY <2>0, <2>b DEF Record, Logged
    <3> QED
      BY <2>0, <2>b, <3>1, LoggedTyped, OneConn
  <2>c. y.req.host \in AnyHost /\ y.req.target \in AnyHost
    BY <2>0, HostTyped
  <2> HIDE DEF y
  <2>1. CASE Connect(c)
    <3> PICK r \in Requests : conn' = [conn EXCEPT ![c].phase = "queued", ![c].req = r]
      BY <2>1 DEF Connect
    <3> DEFINE x == [y EXCEPT !.phase = "queued", !.req = r]
    <3>1. x \in ConnRecord /\ conn' = [conn EXCEPT ![c] = x]
      BY <2>0, <2>1 DEF Connect, ConnRecord, AnyRequest, y
    <3>2. /\ x.phase = "queued" /\ x.log = <<>> /\ x.reached = {} /\ ~ x.passed
      BY <2>0, <2>1 DEF Connect, ConnRecord, ConnOK, y
    <3>3. ConnOK(x)
      BY <3>2 DEF ConnOK
    <3> QED
      BY <3>1, <3>3, OneConn
  <2>2. CASE Accept(c)
    <3>1. y.phase = "queued" /\ Now(c, "accepted")
      BY <2>2 DEF Accept, y
    <3>2. ConnOK(To(y, "accepted"))
      BY <2>0, <3>1, ToTyped DEF ConnOK, Unseen
    <3> QED
      BY <2>a, <3>1, <3>2
  <2>3. CASE HandleConnection(c)
    <3>1. /\ y.phase = "accepted"
          /\ \/ Now(c, "closed") \/ Record(c, "deny", "closed")
             \/ contains(y.req.host) /\ Now(c, "dialing")
      BY <2>3 DEF HandleConnection, y
    <3>2. ConnOK(To(y, "closed")) /\ ConnOK(Logged(y, "deny", "closed"))
      BY <2>0, <3>1, ToTyped, LoggedTyped DEF ConnOK, Unseen
    <3>3. contains(y.req.host) => ConnOK(To(y, "dialing"))
      BY <2>0, <3>1, ToTyped DEF ConnOK, Unseen
    <3>4. y.log = <<>>
      BY <2>0, <3>1 DEF ConnOK
    <3> QED
      BY <2>a, <2>b, <3>1, <3>2, <3>3, <3>4
  <2>4. CASE DialFails(c)
    <3>1. y.phase \in {"dialing", "asking"} /\ Record(c, "deny", "closed")
      BY <2>4 DEF DialFails, y
    <3>2. y.log = <<>>
      BY <2>0, <3>1 DEF ConnOK
    <3>3. ConnOK(Logged(y, "deny", "closed"))
      BY <2>0, <3>1, <3>2, LoggedTyped DEF ConnOK, Unseen
    <3> QED
      BY <2>b, <3>1, <3>2, <3>3
  <2>5. CASE Established(c)
    <3> DEFINE there == Reaching(y, y.req.host)
               allow == <<Entry("allow", y.req.host)>>
               x     == [there EXCEPT !.phase = "tunnel", !.log = allow]
               z     == [there EXCEPT !.phase = "closed"]
    <3>1. y.phase = "dialing" /\ y.reached = {} /\ y.log = <<>> /\ ~ y.passed /\ contains(y.req.host)
      BY <2>0, <2>5 DEF Established, ConnOK, y
    <3>2. [y EXCEPT !.reached = {y.req.host}] = there
      BY <3>1 DEF Reaching
    <3>3. conn' = [conn EXCEPT ![c] = x] \/ conn' = [conn EXCEPT ![c] = z]
      BY <2>5, <3>2 DEF Established, y
    <3>4. /\ there \in ConnRecord /\ there.reached = {y.req.host} /\ there.log = <<>>
          /\ there.req = y.req /\ ~ there.passed
      BY <2>0, <2>c, <3>1, ReachingTyped
    <3>5. allow \in Logs
      BY <2>c DEF Logs
    <3> HIDE DEF there, allow
    <3>6. /\ x \in ConnRecord /\ x.phase = "tunnel" /\ x.log = allow /\ x.req = y.req
          /\ x.reached = {y.req.host} /\ ~ x.passed
      BY <3>4, <3>5 DEF ConnRecord
    <3>7. ConnOK(x)
      BY <3>1, <3>6 DEF ConnOK, allow
    <3>8. /\ z \in ConnRecord /\ z.phase = "closed" /\ z.log = <<>> /\ z.req = y.req
          /\ z.reached = {y.req.host} /\ ~ z.passed
      BY <3>4 DEF ConnRecord
    <3>9. ConnOK(z)
      BY <3>1, <3>8 DEF ConnOK
    <3> HIDE DEF x, z
    <3> QED
      BY <3>3, <3>6, <3>7, <3>8, <3>9, OneConn
  <2>6. CASE Asked(c)
    <3> DEFINE to == IF y.req.target = NoTarget THEN y.req.host ELSE y.req.target
               x  == To(Reaching(y, to), "asking")
    <3>1. /\ y.phase = "dialing" /\ y.reached = {} /\ y.log = <<>> /\ ~ y.passed
          /\ contains(y.req.host) /\ y.req.kind = "http"
      BY <2>0, <2>6 DEF Asked, ConnOK, y
    <3>2. conn' = [conn EXCEPT ![c] = x]
      BY <2>0, <2>6, <3>1 DEF Asked, To, Reaching, y
    <3>3. to \in AnyHost
      BY <2>c
    <3> HIDE DEF to
    <3>4. Reaching(y, to) \in ConnRecord
      BY <2>0, <3>3, ReachingTyped
    <3>5. /\ x \in ConnRecord /\ x.phase = "asking" /\ x.log = <<>> /\ x.req = y.req
          /\ x.reached = {to} /\ ~ x.passed
      BY <2>0, <3>1, <3>3, <3>4, ReachingTyped, ToTyped
    <3> HIDE DEF x
    <3>6. {to} \subseteq {y.req.host} \/ Unseen(x)
      BY <3>1, <3>5 DEF Unseen, to
    <3>7. ConnOK(x)
      BY <3>1, <3>5, <3>6 DEF ConnOK
    <3> QED
      BY <3>2, <3>5, <3>7, OneConn
  <2>7. CASE Redirected(c)
    <3> PICK h \in Hosts : conn' = [conn EXCEPT ![c].redirected = TRUE, ![c].reached = @ \cup {h}]
      BY <2>7 DEF Redirected
    <3> DEFINE x == [y EXCEPT !.redirected = TRUE, !.reached = y.reached \cup {h}]
    <3>1. /\ y.phase = "asking" /\ y.req.kind = "http" /\ y.log = <<>> /\ ~ y.passed
          /\ contains(y.req.host)
      BY <2>0, <2>7 DEF Redirected, ConnOK, y
    <3>2. h \in AnyHost
      BY DEF Hosts, AnyHost, AnyRequest
    <3>3. /\ x \in ConnRecord /\ x.phase = "asking" /\ x.log = <<>> /\ x.req = y.req
          /\ x.redirected /\ ~ x.passed /\ x.reached # {} /\ conn' = [conn EXCEPT ![c] = x]
      BY <2>0, <3>1, <3>2 DEF ConnRecord, y
    <3> HIDE DEF x
    <3>4. ConnOK(x)
      BY <3>1, <3>3 DEF ConnOK, Unseen
    <3> QED
      BY <3>3, <3>4, OneConn
  <2>8. CASE Answered(c)
    <3> DEFINE x == [y EXCEPT !.phase = "answering", !.passed = TRUE]
    <3>1. y.phase = "asking"
      BY <2>8 DEF Answered, y
    <3>2. /\ x \in ConnRecord /\ x.phase = "answering" /\ x.log = y.log /\ x.req = y.req
          /\ x.reached = y.reached /\ x.redirected = y.redirected
          /\ conn' = [conn EXCEPT ![c] = x]
      BY <2>0, <2>8 DEF Answered, ConnRecord, y
    <3> HIDE DEF x
    <3>3. ConnOK(x)
      BY <2>0, <3>1, <3>2 DEF ConnOK, Unseen
    <3> QED
      BY <3>2, <3>3, OneConn
  <2>9. CASE Forwarded(c)
    <3>1. y.phase = "answering" /\ y.log = <<>> /\ Record(c, "allow", "closed")
      BY <2>0, <2>9 DEF Forwarded, ConnOK, y
    <3>2. ConnOK(Logged(y, "allow", "closed"))
      BY <2>0, <3>1, LoggedTyped DEF ConnOK, Unseen
    <3> QED
      BY <2>b, <3>1, <3>2
  <2>10. CASE Transfer(c)
    <3> DEFINE x == [y EXCEPT !.passed = TRUE]
    <3>1. y.phase = "tunnel"
      BY <2>10 DEF Transfer, y
    <3>2. /\ x \in ConnRecord /\ x.phase = "tunnel" /\ x.log = y.log /\ x.req = y.req
          /\ x.reached = y.reached /\ x.redirected = y.redirected
          /\ conn' = [conn EXCEPT ![c] = x]
      BY <2>0, <2>10, <3>1 DEF Transfer, ConnRecord, y
    <3> HIDE DEF x
    <3>3. ConnOK(x)
      BY <2>0, <3>1, <3>2 DEF ConnOK, Unseen
    <3> QED
      BY <3>2, <3>3, OneConn
  <2>11. CASE TunnelEnds(c)
    <3>1. y.phase = "tunnel" /\ Now(c, "closed")
      BY <2>11 DEF TunnelEnds, y
    <3>2. ConnOK(To(y, "closed"))
      BY <2>0, <3>1, ToTyped DEF ConnOK, Unseen
    <3> QED
      BY <2>a, <3>1, <3>2
  <2> QED
    BY <1>1, <2>1, <2>2, <2>3, <2>4, <2>5, <2>6, <2>7, <2>8, <2>9, <2>10, <2>11
<1>2. CASE ProxyStops
  <2>1. conn' = [c \in Conns |-> IF conn[c].phase = "queued" THEN To(conn[c], "closed")
                                                             ELSE conn[c]]
    BY <1>2 DEF ProxyStops, To
  <2>2. ASSUME NEW c \in Conns
        PROVE  /\ conn[c] \in ConnRecord /\ ConnOK(conn[c])
               /\ To(conn[c], "closed") \in ConnRecord
               /\ conn[c].phase = "queued" => ConnOK(To(conn[c], "closed"))
    <3>1. conn[c] \in ConnRecord /\ ConnOK(conn[c])
      BY DEF ConnInv
    <3> QED
      BY <3>1, ToTyped DEF ConnOK, Unseen
  <2> QED
    BY <2>1, <2>2 DEF ConnInv
<1>3. CASE UNCHANGED conn
  BY <1>3 DEF ConnInv
<1>4. Execute \/ Processes \/ DeadlinePasses => UNCHANGED conn
  BY DEF Execute, Processes, DeadlinePasses, Refuse, StartProxy, Create, Assign, Resume,
         SpawnFails, Read, ReadEnd, ReadBreaks, Verdict, Kill, Finish, Fork, Exit, CloseOutput,
         Write
<1> QED
  BY <1>1, <1>2, <1>3, <1>4 DEF Next, Proxy

--------------------------------------------------------------------------------
(* The three together. *)

IndInv == BootInv /\ CallInv /\ OutputInv /\ ConnInv

(* Every step keeps what is known of the call. *)
LEMMA CallNextInd == CallInv /\ OutputInv /\ [Next]_vars => CallInv' /\ OutputInv'
<1> SUFFICES ASSUME CallInv, OutputInv, [Next]_vars PROVE CallInv' /\ OutputInv'
  OBVIOUS
<1>1. CASE Execute \/ Processes \/ DeadlinePasses
  BY <1>1, StartSteps, CollectSteps, OutputSteps DEF Execute
<1>2. CASE \/ Proxy
           \/ \E c \in Conns : Connect(c) \/ Redirected(c) \/ Transfer(c) \/ TunnelEnds(c)
  <2>1. /\ UNCHANGED << processVars, outputVars, callVars >>
        /\ proxy' = proxy \/ (proxy = "stopping" /\ proxy' = "down")
    BY <1>2 DEF Proxy, ProxyStops, Accept, HandleConnection, DialFails, Established, Asked,
                Answered, Forwarded, Connect, Redirected, Transfer, TunnelEnds, ConnStep, proxyVars
  <2> QED
    BY <2>1, CallFrame
<1>3. CASE UNCHANGED vars
  BY <1>3, CallFrame DEF vars, proxyVars
<1> QED
  BY <1>1, <1>2, <1>3 DEF Next

(* Bootstraps and the call, step by step. *)
LEMMA IndInvariant == Spec => []IndInv
<1>1. BootInit /\ Init => IndInv
  BY BootInitInd, CallInitInd, ConnInitInd DEF IndInv
<1>2. IndInv /\ [ \/ BootNext /\ UNCHANGED vars
                  \/ Next /\ UNCHANGED bootVars ]_<<vars, bootVars>> => IndInv'
  <2> SUFFICES ASSUME IndInv, [BootNext]_bootVars, [Next]_vars
               PROVE  IndInv'
    OBVIOUS
  <2>1. UNCHANGED vars => ConnInv'
    BY DEF IndInv, ConnInv, vars
  <2> QED
    BY <2>1, BootNextInd, CallNextInd, ConnSteps DEF IndInv
<1> QED
  BY <1>1, <1>2, PTL DEF Spec

(* What a start believes is true: over a manifest of the pinned archive,   *)
(* and after a bootstrap that returned Ok, every file is the pinned one,   *)
(* for every archive, wherever earlier bootstraps were interrupted         *)
(* (bootstrap_sync of python.rs and node.rs).                              *)
THEOREM RuntimeStaysWhole == Spec => []RuntimeWhole
<1>1. IndInv => RuntimeWhole
  BY DEF IndInv, BootInv
<1> QED
  BY <1>1, IndInvariant, PTL

(* An exit code is reported of a child that ended by itself before the     *)
(* deadline, with all it wrote to each stream or the mark of a cut, unless *)
(* a read of that stream failed; "timeout" only of a child that did not    *)
(* end before it (veredito_do_wall_clock, read_stream_to_cap).             *)
THEOREM ReportAlwaysTrue == Spec => []ReportTrue
<1>1. IndInv => ReportTrue
  BY DEF IndInv, CallInv, ResultInv, OutputInv, StreamOK, ReportTrue
<1> QED
  BY <1>1, IndInvariant, PTL

(* No process outlives the call: whatever step it ended at, its child and  *)
(* what the child left behind are dead and the listener is on its way down *)
(* (spawn_windows' order, the job's kill-on-close, the drop order).        *)
THEOREM NothingEverOutlives == Spec => []NothingOutlives
<1>1. IndInv => NothingOutlives
  BY DEF IndInv, CallInv, CallTypeOK, StageInv, NothingOutlives, Alive
<1> QED
  BY <1>1, IndInvariant, PTL

(* No host is reached for a request whose own host is not listed, and none *)
(* but that one unless an HTTP request names another as its target or is   *)
(* redirected; the record of a passage is there before the first byte of a *)
(* tunnel and at the latest when the connection ends (handle_connect,      *)
(* handle_http).                                                           *)
THEOREM TrafficAlwaysOnRecord == Spec => []TrafficOnRecord
<1>1. IndInv => TrafficOnRecord
  <2> SUFFICES ASSUME ConnInv, NEW c \in Conns
               PROVE  LET x == conn[c]
                      IN  /\ x.reached # {} => contains(x.req.host)
                          /\ x.reached \subseteq {x.req.host} \/ Unseen(x)
                          /\ x.passed /\ x.phase \in {"tunnel", "closed"} =>
                                 x.reached # {} /\ x.log = <<Entry("allow", x.req.host)>>
                          /\ Len(x.log) <= 1
    BY DEF IndInv, TrafficOnRecord
  <2>1. conn[c] \in ConnRecord /\ ConnOK(conn[c])
    BY DEF ConnInv
  <2>2. ASSUME NEW l \in Logs PROVE Len(l) <= 1
    <3>1. CASE l = <<>>
      BY <3>1
    <3>2. CASE \E d \in {"allow", "deny"}, h \in AnyHost : l = <<Entry(d, h)>>
      BY <3>2
    <3> QED
      BY <3>1, <3>2 DEF Logs
  <2>3. Len(conn[c].log) <= 1
    BY <2>1, <2>2 DEF ConnRecord
  <2> QED
    BY <2>1, <2>3 DEF ConnOK
<1> QED
  BY <1>1, IndInvariant, PTL

================================================================================
