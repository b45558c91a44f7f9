---------------------------- MODULE LmHeadProofs ----------------------------
(* What TLAPS proves of LmHead, for every number of chunks, passes and failures. *)
EXTENDS LmHead, TLAPS

\* lm_job_pending tells whether there is a worker, which is for chunk 1 before the
\* loop and for chunk i+2 in it, reading into the buffer that is free then.
JobInv ==
    /\ jobPending <=> job.st # "none"
    /\ pc \in {"idle", "load0", "load1", "kick", "b"} => ~jobPending
    /\ pc \in {"load0", "wait0", "load1", "kick0", "poll0"} => i = 0
    /\ pc \in {"kick0", "poll0", "a"} /\ jobPending => i + 1 < N /\ job.buf = Nxt
    /\ pc \in {"matmul", "dequant", "d"} /\ jobPending => i + 2 < N /\ job.buf = cur

\* Main waits for a transpose of the pair of buffers it named in the descriptor.
PollInv ==
    /\ pending => pc \in {"b", "matmul", "dequant", "d"}
    /\ pc = "poll0" => desc.from = cur /\ desc.to = cur
    /\ pending => desc.from = Nxt /\ desc.to = Nxt

\* As long as no command was given up, there is at most one: in the mailbox, carried
\* out or answered, and main waits for it.
OneCommand ==
    /\ mail > 0 => mail = 1 /\ ~sec.busy /\ desc.result = "pending"
    /\ sec.busy => desc.result = "pending" /\ sec.from = desc.from /\ sec.to = desc.to
    /\ mail > 0 \/ sec.busy \/ desc.result # "pending" => pc = "poll0" \/ pending

IInv == TypeOK /\ JobInv /\ PollInv /\ (alive /\ ~slow => OneCommand)

LEMMA SizeFact == N \in Nat \ {0} /\ Passes \in Nat /\ MaxFault \in Nat
  BY SizeAssumption

LEMMA InitInv == Init => IInv
<1> SUFFICES ASSUME Init PROVE IInv
  OBVIOUS
<1> USE SizeFact DEF Init
<1>1. src \in [Bufs -> Content] /\ dst \in [Bufs -> Content] /\ out \in [Chunks -> Content]
  BY DEF Bad, Content
<1>2. job \in [st : {"none", "started", "reading", "done"}, chunk : Chunks, buf : Bufs]
  BY DEF NoJob, Chunks, Bufs
<1>3. desc \in [from : Bufs, to : Bufs, result : {"pending", "ok", "error"}]
  BY DEF Bufs
<1>4. sec \in [busy : BOOLEAN, from : Bufs, to : Bufs, val : Content] /\ sec.busy = FALSE
  BY DEF Idle, Bufs, Content, Bad
<1>5. poolMbox \in BOOLEAN /\ useMbox \in BOOLEAN /\ pending \in BOOLEAN /\ jobPending \in BOOLEAN
      /\ alive \in BOOLEAN /\ slow \in BOOLEAN
  OBVIOUS
<1>6. cached \subseteq Chunks /\ short \subseteq Chunks
  OBVIOUS
<1>7. i \in Chunks /\ cur \in Bufs /\ view \in Content /\ mail \in Nat /\ pass \in 0..Passes
      /\ faults \in 0..MaxFault
  BY DEF Chunks, Bufs, Content, Bad
<1>8. TypeOK
  BY <1>1, <1>2, <1>3, <1>4, <1>5, <1>6, <1>7 DEF TypeOK
<1>9. JobInv
  BY DEF JobInv, NoJob
<1>10. PollInv
  BY DEF PollInv
<1>11. OneCommand
  BY <1>4 DEF OneCommand
<1> QED
  BY <1>8, <1>9, <1>10, <1>11 DEF IInv

\* TypeOK, one conjunct at a time, for the provers.
LEMMA Types ==
    ASSUME TypeOK
    PROVE  /\ i \in Chunks /\ cur \in Bufs /\ Nxt \in Bufs /\ Nxt # cur
           /\ job \in [st : {"none", "started", "reading", "done"}, chunk : Chunks, buf : Bufs]
           /\ src \in [Bufs -> Content] /\ dst \in [Bufs -> Content] /\ view \in Content
           /\ out \in [Chunks -> Content]
           /\ desc \in [from : Bufs, to : Bufs, result : {"pending", "ok", "error"}]
           /\ mail \in Nat
           /\ sec \in [busy : BOOLEAN, from : Bufs, to : Bufs, val : Content]
           /\ Bad \in Content /\ Chunks \subseteq Content /\ faults \in 0..MaxFault
           /\ Chunks = 0..N-1 /\ Bufs = {0, 1}
  BY SizeFact DEF TypeOK, Nxt, Bufs, Bad, Content, Chunks

LEMMA FaultType ==
    ASSUME faults \in 0..MaxFault, Fault
    PROVE  faults' \in 0..MaxFault
  BY SizeFact DEF Fault

\* Writing a source buffer keeps the types and leaves the core's buffers alone.
LEMMA WriteSrcType ==
    ASSUME TypeOK, NEW b \in Bufs, NEW c \in Content, WriteSrc(b, c)
    PROVE  /\ src' \in [Bufs -> Content]
           /\ sec' \in [busy : BOOLEAN, from : Bufs, to : Bufs, val : Content]
           /\ sec'.busy = sec.busy /\ sec'.from = sec.from /\ sec'.to = sec.to
  BY Types DEF WriteSrc

\* Every variable stays in its type, step by step.
LEMMA NextType ==
    ASSUME IInv, Next
    PROVE  TypeOK'
<1> USE Types, FaultType, SizeFact DEF IInv
<1>0. TypeOK
  OBVIOUS
<1>1. CASE Begin
  <2>1. pass' \in 0..Passes
    BY <1>1 DEF Begin, TypeOK
  <2>2. useMbox' \in BOOLEAN /\ pending' \in BOOLEAN /\ short' \subseteq Chunks
    BY <1>1 DEF Begin, TypeOK
  <2>3. pc' = "load0" /\ i' \in Chunks /\ cur' \in Bufs /\ view' \in Content
    BY <1>1 DEF Begin
  <2>4. out' \in [Chunks -> Content] /\ src' \in [Bufs -> Content] /\ dst' \in [Bufs -> Content]
    BY <1>1 DEF Begin
  <2>5. sec' \in [busy : BOOLEAN, from : Bufs, to : Bufs, val : Content]
    BY <1>1 DEF Begin
  <2> QED
    BY <1>1, <2>1, <2>2, <2>3, <2>4, <2>5 DEF Begin, TypeOK, jobVars
<1>2. CASE Load
  <2>1. PICK ld \in Loads : /\ pc = ld.at /\ pc' = ld.then
                            /\ IF ld.chunk < N THEN LoadHit(ld) \/ LoadStart(ld) \/ LoadSync(ld)
                               ELSE UNCHANGED <<src, sec, jobVars, short, faults>>
    BY <1>2 DEF Load
  <2>2. ld.chunk \in Nat /\ ld.buf \in Bufs /\ ld.then \in {"wait0", "kick0", "matmul"}
    BY <2>1 DEF Loads
  <2>3. CASE ld.chunk >= N
    BY <1>2, <2>1, <2>2, <2>3 DEF Load, TypeOK, jobVars, loopVars
  <2>4. CASE ld.chunk < N
    <3>1. ld.chunk \in Chunks
      BY <2>2, <2>4
    <3>2. /\ src' \in [Bufs -> Content]
          /\ sec' \in [busy : BOOLEAN, from : Bufs, to : Bufs, val : Content]
      BY <1>0, <2>1, <2>2, <2>4, <3>1, WriteSrcType DEF LoadHit, LoadStart, LoadSync
    <3>3. job' \in [st : {"none", "started", "reading", "done"}, chunk : Chunks, buf : Bufs]
      BY <2>1, <2>2, <2>4, <3>1 DEF LoadHit, LoadStart, LoadSync
    <3>4. jobPending' \in BOOLEAN
      BY <2>1, <2>4 DEF LoadHit, LoadStart, LoadSync
    <3>5. short' \subseteq Chunks /\ faults' \in 0..MaxFault
      BY <2>1, <2>4, <3>1 DEF LoadHit, LoadStart, LoadSync, TypeOK
    <3> QED
      BY <1>2, <2>1, <2>2, <3>2, <3>3, <3>4, <3>5 DEF Load, TypeOK, loopVars
  <2> QED
    BY <2>2, <2>3, <2>4
<1>3. CASE Wait \/ NothingToWait
  <2>1. job' \in [st : {"none", "started", "reading", "done"}, chunk : Chunks, buf : Bufs]
    BY <1>3 DEF Wait, NothingToWait, Reaped, NoJob, jobVars
  <2>2. jobPending' \in BOOLEAN
    BY <1>3 DEF Wait, NothingToWait, TypeOK, jobVars
  <2> QED
    BY <1>3, <2>1, <2>2 DEF Wait, NothingToWait, TypeOK, secVars, loopVars
<1>4. CASE Kick
  <2>1. Pair \in Bufs /\ pending' \in BOOLEAN
    BY <1>4 DEF Pair, Kick, TypeOK
  <2> QED
    BY <1>4, <2>1 DEF Kick, TypeOK, jobVars
<1>5. CASE TransposeHere
  <2>1. Pair \in Bufs /\ dst' \in [Bufs -> Content]
    BY <1>5 DEF Pair, TransposeHere, CpuTranspose
  <2>2. pending' \in BOOLEAN /\ useMbox' \in BOOLEAN
    BY <1>5 DEF TransposeHere, TypeOK
  <2>3. faults' \in 0..MaxFault
        /\ desc' \in [from : Bufs, to : Bufs, result : {"pending", "ok", "error"}]
    BY <1>5, <2>1 DEF TransposeHere
  <2> QED
    BY <1>5, <2>1, <2>2, <2>3 DEF TransposeHere, TypeOK, jobVars
<1>6. CASE MatmulBegin \/ MatmulEnd
  <2>1. view' \in Content /\ out' \in [Chunks -> Content]
    BY <1>6 DEF MatmulBegin, MatmulEnd
  <2> QED
    BY <1>6, <2>1 DEF MatmulBegin, MatmulEnd, TypeOK, secVars, jobVars
<1>7. CASE PollAnswer \/ PollTimeout \/ NothingToPoll
  <2>1. pc' \in {"a", "idle"} /\ i' \in Chunks /\ cur' \in Bufs
    BY <1>7 DEF PollAnswer, PollTimeout, NothingToPoll, GoOn, HasNext
  <2>2. Pair \in Bufs
    BY DEF Pair
  <2>3. dst' \in [Bufs -> Content]
    BY <1>7, <2>2 DEF PollAnswer, PollTimeout, NothingToPoll, CpuTranspose
  <2>4. pending' \in BOOLEAN /\ useMbox' \in BOOLEAN /\ slow' \in BOOLEAN
    BY <1>7 DEF PollAnswer, PollTimeout, NothingToPoll, TypeOK
  <2>5. faults' \in 0..MaxFault
        /\ desc' \in [from : Bufs, to : Bufs, result : {"pending", "ok", "error"}]
    BY <1>7 DEF PollAnswer, PollTimeout, NothingToPoll, secVars
  <2>6. /\ pass' = pass /\ poolMbox' = poolMbox /\ src' = src /\ cached' = cached
        /\ short' = short /\ mail' = mail /\ sec' = sec /\ alive' = alive
        /\ job' = job /\ jobPending' = jobPending /\ view' = view /\ out' = out
    BY <1>7 DEF PollAnswer, PollTimeout, NothingToPoll, secVars, jobVars
  <2> QED
    BY <2>1, <2>3, <2>4, <2>5, <2>6 DEF TypeOK
<1>8. CASE Worker
  <2>1. job.buf \in Bufs /\ job.chunk \in Chunks
    OBVIOUS
  <2>2. /\ src' \in [Bufs -> Content]
        /\ sec' \in [busy : BOOLEAN, from : Bufs, to : Bufs, val : Content]
    BY <1>0, <1>8, <2>1, WriteSrcType DEF Worker, WorkerBegin, WorkerEnd
  <2>3. job' \in [st : {"none", "started", "reading", "done"}, chunk : Chunks, buf : Bufs]
    BY <1>8 DEF Worker, WorkerBegin, WorkerEnd
  <2>4. short' \subseteq Chunks /\ faults' \in 0..MaxFault
    BY <1>8, <2>1 DEF Worker, WorkerBegin, WorkerEnd, TypeOK
  <2> QED
    BY <1>8, <2>2, <2>3, <2>4 DEF Worker, WorkerBegin, WorkerEnd, TypeOK, loopVars
<1>9. CASE SecTake \/ SecEnd \/ SecDies
  <2>1. sec' \in [busy : BOOLEAN, from : Bufs, to : Bufs, val : Content]
    <3>1. desc.from \in Bufs /\ desc.to \in Bufs /\ src[desc.from] \in Content
      OBVIOUS
    <3>2. TRUE \in BOOLEAN /\ FALSE \in BOOLEAN /\ 0 \in Bufs
      OBVIOUS
    <3>3. CASE sec' = [busy |-> TRUE, from |-> desc.from, to |-> desc.to, val |-> src[desc.from]]
      BY <3>1, <3>2, <3>3, ZenonT(20)
    <3>4. CASE sec' = Idle
      BY <3>2, <3>4 DEF Idle
    <3>5. CASE sec' = sec
      BY <3>5
    <3> QED
      BY <1>9, <3>3, <3>4, <3>5 DEF SecTake, SecEnd, SecDies
  <2>2. dst' \in [Bufs -> Content] /\ mail' \in Nat
    BY <1>9 DEF SecTake, SecEnd, SecDies
  <2>3. faults' \in 0..MaxFault
        /\ desc' \in [from : Bufs, to : Bufs, result : {"pending", "ok", "error"}]
    BY <1>9 DEF SecTake, SecEnd, SecDies
  <2>4. alive' \in BOOLEAN
    BY <1>9 DEF SecTake, SecEnd, SecDies, TypeOK
  <2> QED
    BY <1>9, <2>1, <2>2, <2>3, <2>4 DEF SecTake, SecEnd, SecDies, TypeOK, jobVars, loopVars
<1>10. CASE Ended
  BY <1>10 DEF Ended, vars, TypeOK, secVars, jobVars, loopVars
<1> QED
  BY <1>1, <1>2, <1>3, <1>4, <1>5, <1>6, <1>7, <1>8, <1>9, <1>10 DEF Next, Main

\* JobInv, where neither the worker's job nor main's place in the loop changes.
LEMMA JobFrame ==
    ASSUME JobInv, pc' = pc, i' = i, cur' = cur, jobPending' = jobPending,
           job'.buf = job.buf, job'.st # "none" <=> job.st # "none"
    PROVE  JobInv'
  BY DEF JobInv, Nxt

\* Only Load starts a worker, only Wait ends one, and main waits in between.
LEMMA NextJobInv ==
    ASSUME IInv, Next
    PROVE  JobInv'
<1>0. TypeOK /\ JobInv /\ i \in Int /\ cur \in {0, 1} /\ N \in Int
  BY Types, SizeFact DEF IInv
<1>1. CASE Begin
  BY <1>0, <1>1 DEF Begin, JobInv, jobVars
<1>2. CASE Load
  <2> DEFINE LoadsAhead ==
        /\ jobPending' /\ job'.st = "started"
        /\ pc = "load1" => 1 < N /\ job'.buf = Nxt
        /\ pc = "b" => i + 2 < N /\ job'.buf = cur
  <2>1. i' = i /\ cur' = cur
    BY <1>2 DEF Load, loopVars
  <2>2. ~jobPending /\ job.st = "none"
    BY <1>0, <1>2 DEF Load, Loads, JobInv
  <2>3. \/ pc = "load0" /\ pc' = "wait0"
        \/ pc = "load1" /\ pc' = "kick0"
        \/ pc = "b" /\ pc' = "matmul"
    BY <1>2 DEF Load, Loads
  <2>4. \/ ~jobPending' /\ job' = job
        \/ LoadsAhead
    <3>1. PICK ld \in Loads : /\ pc = ld.at
                              /\ IF ld.chunk < N THEN LoadHit(ld) \/ LoadStart(ld) \/ LoadSync(ld)
                                 ELSE UNCHANGED <<src, sec, jobVars, short, faults>>
      BY <1>2 DEF Load
    <3>2. \/ ~jobPending' /\ job' = job
          \/ /\ ld.chunk < N /\ jobPending'
             /\ job' = [st |-> "started", chunk |-> ld.chunk, buf |-> ld.buf]
      BY <2>2, <3>1 DEF LoadHit, LoadStart, LoadSync, jobVars
    <3>3. CASE ~jobPending' /\ job' = job
      BY <3>3
    <3>4. CASE /\ ld.chunk < N /\ jobPending'
               /\ job' = [st |-> "started", chunk |-> ld.chunk, buf |-> ld.buf]
      <4>1. job'.st = "started" /\ job'.buf = ld.buf
        BY <3>4
      <4>2. \/ pc = "load0"
            \/ pc = "load1" /\ ld.chunk = 1 /\ ld.buf = Nxt
            \/ pc = "b" /\ ld.chunk = i + 2 /\ ld.buf = cur
        BY <3>1 DEF Loads
      <4> QED
        BY <3>4, <4>1, <4>2
    <3> QED
      BY <3>2, <3>3, <3>4
  <2>5. CASE ~jobPending' /\ job' = job
    BY <1>0, <2>1, <2>2, <2>3, <2>5 DEF JobInv
  <2>6. CASE LoadsAhead
    BY <1>0, <2>1, <2>2, <2>3, <2>6 DEF JobInv, Nxt
  <2> QED
    BY <2>4, <2>5, <2>6
<1>3. CASE Wait
  <2>1. ~jobPending' /\ job'.st = "none"
    BY <1>0, <1>3 DEF Wait, Reaped, NoJob, JobInv
  <2> QED
    BY <1>0, <1>3, <2>1 DEF Wait, JobInv, loopVars
<1>4. CASE NothingToWait
  <2>1. ~jobPending
    BY <1>0, <1>4 DEF NothingToWait, JobInv, HasNext
  <2> QED
    BY <1>0, <1>4, <2>1 DEF NothingToWait, JobInv, jobVars, loopVars
<1>5. CASE Kick
  BY <1>0, <1>5 DEF Kick, JobInv, jobVars, Nxt
<1>6. CASE TransposeHere
  BY <1>0, <1>6 DEF TransposeHere, JobInv, jobVars, Nxt
<1>7. CASE MatmulBegin \/ MatmulEnd
  BY <1>0, <1>7 DEF MatmulBegin, MatmulEnd, JobInv, jobVars
<1>8. CASE PollAnswer \/ PollTimeout \/ NothingToPoll
  <2>1. GoOn /\ job' = job /\ jobPending' = jobPending /\ (pc = "poll0" \/ pc = "d")
    BY <1>0, <1>8 DEF PollAnswer, PollTimeout, NothingToPoll, Polling, jobVars
  <2>2. CASE pc = "poll0"
    BY <1>0, <2>1, <2>2 DEF GoOn, JobInv, Nxt
  <2>3. CASE pc = "d" /\ HasNext
    <3>1. pc' = "a" /\ i' = i + 1 /\ cur' = 1 - cur
      BY <1>0, <2>1, <2>3 DEF GoOn, Nxt
    <3>2. jobPending => i' + 1 < N /\ job.buf = Nxt'
      BY <1>0, <2>3, <3>1 DEF JobInv, Nxt
    <3> QED
      BY <1>0, <2>1, <3>1, <3>2 DEF JobInv
  <2>4. CASE pc = "d" /\ ~HasNext
    <3>1. ~jobPending
      BY <1>0, <2>4 DEF JobInv, HasNext
    <3> QED
      BY <1>0, <2>1, <2>4, <3>1 DEF GoOn, JobInv
  <2> QED
    BY <1>0, <2>1, <2>2, <2>3, <2>4
<1>9. CASE Worker
  <2>1. job'.buf = job.buf /\ job'.st # "none" /\ job.st # "none"
    BY <1>0, Types, <1>9 DEF Worker, WorkerBegin, WorkerEnd
  <2> QED
    BY <1>0, <1>9, <2>1, JobFrame DEF Worker, WorkerBegin, WorkerEnd, loopVars
<1>10. CASE SecTake \/ SecEnd \/ SecDies
  BY <1>0, <1>10, JobFrame DEF SecTake, SecEnd, SecDies, jobVars, loopVars
<1>11. CASE Ended
  BY <1>0, <1>11, JobFrame DEF Ended, vars, jobVars, loopVars
<1> QED
  BY <1>1, <1>2, <1>3, <1>4, <1>5, <1>6, <1>7, <1>8, <1>9, <1>10, <1>11 DEF Next, Main

\* Main polls for the pair of buffers it has put into the descriptor.
LEMMA NextPollInv ==
    ASSUME IInv, Next
    PROVE  PollInv'
<1> USE Types, SizeFact DEF IInv, PollInv
<1>1. CASE Begin
  BY <1>1 DEF Begin
<1>2. CASE Load
  <2>1. pc' # "poll0" /\ pending' = pending /\ desc' = desc /\ cur' = cur
    BY <1>2 DEF Load, Loads, loopVars
  <2>2. pending => pc = "b" /\ pc' = "matmul"
    BY <1>2 DEF Load, Loads
  <2> QED
    BY <2>1, <2>2 DEF Nxt
<1>3. CASE Wait \/ NothingToWait
  BY <1>3 DEF Wait, NothingToWait, secVars, loopVars
<1>4. CASE Kick
  <2>1. desc'.from = Pair /\ desc'.to = Pair /\ cur' = cur
    BY <1>4 DEF Kick
  <2> QED
    BY <1>4, <2>1 DEF Kick, Pair, Nxt
<1>5. CASE TransposeHere
  <2>1. ~pending /\ ~pending' /\ pc' # "poll0"
    BY <1>5 DEF TransposeHere
  <2> QED
    BY <2>1
<1>6. CASE MatmulBegin \/ MatmulEnd
  BY <1>6 DEF MatmulBegin, MatmulEnd, secVars, Nxt
<1>7. CASE PollAnswer \/ PollTimeout \/ NothingToPoll
  BY <1>7 DEF PollAnswer, PollTimeout, NothingToPoll, GoOn, HasNext
<1>8. CASE Worker
  BY <1>8 DEF Worker, WorkerBegin, WorkerEnd, loopVars, Nxt
<1>9. CASE SecTake \/ SecEnd \/ SecDies
  <2>1. /\ desc'.from = desc.from /\ desc'.to = desc.to
        /\ pc' = pc /\ pending' = pending /\ cur' = cur
    BY <1>9 DEF SecTake, SecEnd, SecDies, loopVars
  <2> QED
    BY <2>1 DEF Nxt
<1>10. CASE Ended
  BY <1>10 DEF Ended, vars, secVars, loopVars, Nxt
<1> QED
  BY <1>1, <1>2, <1>3, <1>4, <1>5, <1>6, <1>7, <1>8, <1>9, <1>10 DEF Next, Main

\* OneCommand, where neither the command nor main's waiting for it changes.
LEMMA CommandFrame ==
    ASSUME OneCommand, mail' = mail, desc' = desc,
           sec'.busy = sec.busy, sec'.from = sec.from, sec'.to = sec.to,
           pending' = pending, pc = "poll0" => pc' = "poll0"
    PROVE  OneCommand'
  BY DEF OneCommand

\* A command is sent only when the one before it has been answered.
LEMMA NextOneCommand ==
    ASSUME IInv, Next, alive', ~slow'
    PROVE  OneCommand'
<1> USE Types, SizeFact DEF IInv
<1>a. TypeOK /\ PollInv
  OBVIOUS
<1>b. alive /\ ~slow
  <2>1. (alive' = alive \/ alive' = FALSE) /\ (slow' = slow \/ slow' = TRUE)
    <3>1. CASE Begin \/ Load \/ Wait \/ NothingToWait \/ Kick \/ TransposeHere
      BY <3>1 DEF Begin, Load, Wait, NothingToWait, Kick, TransposeHere, secVars
    <3>2. CASE MatmulBegin \/ MatmulEnd \/ PollAnswer \/ NothingToPoll
      BY <3>2 DEF MatmulBegin, MatmulEnd, PollAnswer, NothingToPoll, secVars
    <3>3. CASE PollTimeout
      BY <3>3 DEF PollTimeout, secVars
    <3>4. CASE Worker
      BY <3>4 DEF Worker, WorkerBegin, WorkerEnd
    <3>5. CASE SecTake \/ SecEnd \/ SecDies \/ Ended
      BY <3>5 DEF SecTake, SecEnd, SecDies, Ended, vars, secVars
    <3> QED
      BY <3>1, <3>2, <3>3, <3>4, <3>5 DEF Next, Main
  <2>2. alive' \in BOOLEAN /\ alive \in BOOLEAN /\ slow' \in BOOLEAN /\ slow \in BOOLEAN
    BY NextType DEF TypeOK
  <2>3. alive' = TRUE /\ slow' = FALSE
    BY <2>2
  <2>4. alive = TRUE /\ slow = FALSE
    BY <2>1, <2>2, <2>3
  <2> QED
    BY <2>4
<1>c. OneCommand
  BY <1>b
<1>1. CASE Begin
  <2>1. ~pending /\ pc # "poll0"
    BY <1>1 DEF Begin, PollInv
  <2>2. sec'.busy = sec.busy /\ sec'.from = sec.from /\ sec'.to = sec.to
    BY <1>1 DEF Begin
  <2>3. mail' = mail /\ desc' = desc
    BY <1>1 DEF Begin
  <2> QED
    BY <1>c, <2>1, <2>2, <2>3 DEF OneCommand
<1>2. CASE Load
  <2>1. PICK ld \in Loads : /\ pc = ld.at
                            /\ IF ld.chunk < N THEN LoadHit(ld) \/ LoadStart(ld) \/ LoadSync(ld)
                               ELSE UNCHANGED <<src, sec, jobVars, short, faults>>
    BY <1>2 DEF Load
  <2>2. ld.chunk \in Nat /\ ld.buf \in Bufs /\ pc # "poll0"
    BY <2>1 DEF Loads
  <2>3. sec'.busy = sec.busy /\ sec'.from = sec.from /\ sec'.to = sec.to
    <3>1. CASE sec' = sec
      BY <3>1
    <3>2. CASE ld.chunk < N /\ (LoadHit(ld) \/ LoadSync(ld))
      <4>1. ld.chunk \in Content
        <5>1. ld.chunk \in Chunks
          BY <2>2, <3>2
        <5> QED
          BY <5>1
      <4> QED
        BY <1>a, <2>2, <3>2, <4>1, WriteSrcType DEF LoadHit, LoadSync
    <3> QED
      BY <2>1, <3>1, <3>2 DEF LoadStart
  <2> QED
    BY <1>2, <1>c, <2>2, <2>3, CommandFrame DEF Load, loopVars
<1>3. CASE Wait \/ NothingToWait
  BY <1>3, <1>c, CommandFrame DEF Wait, NothingToWait, secVars, loopVars
<1>4. CASE Kick
  <2>1. ~pending /\ pc # "poll0"
    BY <1>4, <1>a DEF Kick, PollInv
  <2>2. mail = 0 /\ ~sec.busy
    BY <1>c, <2>1 DEF OneCommand
  <2>3. mail' = 1 /\ sec' = sec /\ desc'.result = "pending" /\ (pc' = "poll0" \/ pending')
    BY <1>4, <2>2 DEF Kick
  <2> QED
    BY <2>2, <2>3 DEF OneCommand
<1>5. CASE TransposeHere
  <2>1. ~pending /\ pc # "poll0"
    BY <1>5, <1>a DEF TransposeHere, PollInv
  <2>2. mail = 0 /\ ~sec.busy /\ desc.result = "pending"
    BY <1>c, <2>1 DEF OneCommand
  <2>3. mail' = mail /\ sec' = sec /\ desc'.result = "pending"
    BY <1>5, <2>2 DEF TransposeHere
  <2> QED
    BY <2>2, <2>3 DEF OneCommand
<1>6. CASE MatmulBegin \/ MatmulEnd
  BY <1>6, <1>c, CommandFrame DEF MatmulBegin, MatmulEnd, secVars
<1>7. CASE PollAnswer
  <2>1. mail = 0 /\ ~sec.busy
    BY <1>7, <1>c DEF PollAnswer, OneCommand
  <2>2. mail' = mail /\ sec' = sec /\ desc'.result = "pending"
    BY <1>7 DEF PollAnswer
  <2> QED
    BY <2>1, <2>2 DEF OneCommand
<1>8. CASE PollTimeout
  BY <1>8, <1>b DEF PollTimeout, secVars
<1>9. CASE NothingToPoll
  BY <1>9, <1>c, CommandFrame DEF NothingToPoll, secVars
<1>10. CASE Worker
  <2>1. job.buf \in Bufs /\ job.chunk \in Content
    OBVIOUS
  <2>2. sec'.busy = sec.busy /\ sec'.from = sec.from /\ sec'.to = sec.to
    BY <1>a, <1>10, <2>1, WriteSrcType DEF Worker, WorkerBegin, WorkerEnd
  <2> QED
    BY <1>10, <1>c, <2>2, CommandFrame DEF Worker, WorkerBegin, WorkerEnd, loopVars
<1>11. CASE SecTake
  <2>1. mail = 1 /\ ~sec.busy /\ desc.result = "pending" /\ (pc = "poll0" \/ pending)
    BY <1>11, <1>c DEF SecTake, OneCommand
  <2>2. mail' = 0 /\ pc' = pc /\ pending' = pending
    BY <1>11, <2>1 DEF SecTake, loopVars
  <2>3. CASE desc' = desc /\ sec' = [busy |-> TRUE, from |-> desc.from, to |-> desc.to,
                                     val |-> src[desc.from]]
    BY <2>1, <2>2, <2>3 DEF OneCommand
  <2>4. CASE sec' = sec
    BY <2>1, <2>2, <2>4 DEF OneCommand
  <2> QED
    BY <1>11, <2>3, <2>4 DEF SecTake
<1>12. CASE SecEnd
  <2>1. mail = 0 /\ (pc = "poll0" \/ pending)
    BY <1>12, <1>c DEF SecEnd, OneCommand
  <2>2. ~sec'.busy
    BY <1>12 DEF SecEnd, Idle
  <2>3. mail' = mail /\ pc' = pc /\ pending' = pending
    BY <1>12 DEF SecEnd, loopVars
  <2> QED
    BY <2>1, <2>2, <2>3 DEF OneCommand
<1>13. CASE SecDies
  BY <1>13 DEF SecDies
<1>14. CASE Ended
  BY <1>14, <1>c, CommandFrame DEF Ended, vars, secVars, loopVars
<1> QED
  BY <1>1, <1>2, <1>3, <1>4, <1>5, <1>6, <1>7, <1>8, <1>9, <1>10, <1>11, <1>12, <1>13, <1>14
     DEF Next, Main

\* A stuttering step changes nothing the invariant speaks of.
LEMMA Stutter ==
    ASSUME IInv, UNCHANGED vars
    PROVE  IInv'
  BY DEF IInv, TypeOK, JobInv, PollInv, OneCommand, vars, secVars, jobVars, loopVars, Nxt

LEMMA Inductive == Spec => []IInv
<1>1. Init => IInv
  BY InitInv
<1>2. IInv /\ [Next]_vars => IInv'
  <2> SUFFICES ASSUME IInv, [Next]_vars PROVE IInv'
    OBVIOUS
  <2>1. CASE Next
    BY <2>1, NextType, NextJobInv, NextPollInv, NextOneCommand DEF IInv
  <2>2. CASE UNCHANGED vars
    BY <2>2, Stutter
  <2> QED
    BY <2>1, <2>2
<1> QED
  BY <1>1, <1>2, PTL DEF Spec

\* Every variable of the LM head keeps its type.
THEOREM TypeCorrect == Spec => []TypeOK
<1>1. IInv => TypeOK
  BY DEF IInv
<1> QED
  BY <1>1, Inductive, PTL

\* No worker is left behind: none is there when lm_job is used for another, nor when
\* the pass is over, whatever fails.
THEOREM NoOrphan == Spec => []WorkerJoined
<1>1. IInv => WorkerJoined
  BY DEF IInv, JobInv, WorkerJoined
<1> QED
  BY <1>1, Inductive, PTL

\* The worker never reads into the buffer the secondary core transposes from, nor does
\* the core write the one the matmul reads, until a command is given up too early.
THEOREM BuffersApart == Spec => []BufferExclusive
<1>1. IInv => BufferExclusive
  <2> SUFFICES ASSUME IInv, ~slow, alive, sec.busy
               PROVE  /\ job.st = "reading" => job.buf # sec.from
                      /\ pc = "dequant" => sec.to # cur
    BY DEF BufferExclusive
  <2> USE Types DEF IInv
  <2>1. OneCommand /\ JobInv /\ PollInv
    OBVIOUS
  <2>2. sec.from = desc.from /\ sec.to = desc.to /\ (pc = "poll0" \/ pending)
    BY <2>1 DEF OneCommand
  <2>3. CASE pc = "poll0"
    BY <2>1, <2>2, <2>3 DEF JobInv, PollInv
  <2>4. CASE pending
    BY <2>1, <2>2, <2>4 DEF JobInv, PollInv
  <2> QED
    BY <2>2, <2>3, <2>4
<1> QED
  BY <1>1, Inductive, PTL
-----------------------------------------------------------------------------
(* What the logits are computed from.                                        *)

\* One whole chunk, or whatever was there when the SD card did not deliver it.
Has(content, c) == content = c \/ c \in short

\* A source buffer holds a chunk, or its worker will have put it there.
Coming(b, c) ==
    IF jobPending THEN job.chunk = c /\ job.buf = b /\ (job.st = "done" => Has(src[b], c))
    ELSE Has(src[b], c)

\* The chunk that is, or is to be, transposed while main waits or multiplies.
Target == IF pc \in {"kick0", "poll0"} THEN i ELSE i + 1

\* Chunks arrive two ahead of the matmul, in the source buffer that is free.
SourceInv ==
    /\ pc = "wait0" => Coming(cur, i)
    /\ pc \in {"load1", "kick0", "poll0"} => Has(src[cur], i)
    /\ pc \in {"kick0", "poll0", "a"} /\ HasNext => Coming(Nxt, i + 1)
    /\ pc \in {"kick", "b", "matmul", "dequant", "d"} /\ HasNext => Has(src[Nxt], i + 1)
    /\ pc \in {"matmul", "dequant", "d"} /\ i + 2 < N => Coming(cur, i + 2)
    /\ pc = "kick" \/ pending => HasNext

\* They are transposed one ahead of it, by the core or by the CPU.
DestInv ==
    /\ pc \in {"a", "kick", "b", "matmul", "dequant"} => Has(dst[cur], i)
    /\ pc = "dequant" => view = dst[cur]
    /\ pc \in {"b", "matmul", "dequant", "d"} /\ HasNext /\ ~pending => Has(dst[Nxt], i + 1)

\* The core transposes, and answers, for what main waits for.
CoreInv ==
    /\ desc.result # "pending" => pc = "poll0" \/ pending
    /\ desc.result = "ok" => Has(dst[Pair], Target)
    /\ alive /\ sec.busy => Has(sec.val, Target)

ChunkInv == SourceInv /\ DestInv /\ CoreInv /\ LogitsExact

\* Nothing ChunkInv speaks of changes, and the core does not begin anything.
LEMMA ChunkFrame ==
    ASSUME ChunkInv, ~slow,
           pc' = pc, i' = i, cur' = cur, pending' = pending, jobPending' = jobPending, job' = job,
           src' = src, dst' = dst, view' = view, out' = out, desc' = desc, short' = short, pass' = pass,
           sec' = sec, alive' => alive
    PROVE  ChunkInv'
<1>1. SourceInv'
  BY DEF ChunkInv, SourceInv, Coming, Has, HasNext, Nxt
<1>2. DestInv'
  BY DEF ChunkInv, DestInv, Has, HasNext, Nxt
<1>3. CoreInv'
  BY DEF ChunkInv, CoreInv, Has, Pair, Nxt, Target
<1>4. LogitsExact'
  BY <1>1 DEF ChunkInv, LogitsExact
<1> QED
  BY <1>1, <1>2, <1>3, <1>4 DEF ChunkInv

\* The numbers that occur.
LEMMA Numbers ==
    ASSUME TypeOK
    PROVE  /\ N \in Nat \ {0} /\ i \in 0..N-1 /\ i + 1 \in Nat /\ cur \in {0, 1} /\ Nxt \in {0, 1} /\ Nxt # cur
           /\ Nxt = 1 - cur /\ Pair \in {cur, Nxt}
           /\ src \in [Bufs -> Content] /\ dst \in [Bufs -> Content] /\ out \in [Chunks -> Content]
           /\ Bufs = {0, 1} /\ Chunks = 0..N-1 /\ short \subseteq Chunks
           /\ desc.from \in Bufs /\ desc.to \in Bufs
  BY Types, SizeFact DEF Nxt, Pair, TypeOK

\* A pass begins: the core has answered all it was asked.
LEMMA BeginChunk ==
    ASSUME IInv, ~slow, ChunkInv, Begin
    PROVE  ChunkInv'
<1>1. /\ pc = "idle" /\ pc' = "load0" /\ i' = 0 /\ pending' = FALSE /\ desc' = desc /\ alive' = alive
      /\ sec'.busy = sec.busy
  BY Types DEF IInv, Begin
<1>2. ~pending
  BY <1>1 DEF IInv, PollInv
<1>3. desc.result = "pending" /\ (alive => ~sec.busy)
  BY <1>1, <1>2, Types DEF IInv, OneCommand, ChunkInv, CoreInv
<1>4. SourceInv' /\ DestInv' /\ CoreInv'
  BY <1>1, <1>3 DEF SourceInv, DestInv, CoreInv
<1>5. LogitsExact'
  BY <1>1, SizeFact DEF LogitsExact, Chunks
<1> QED
  BY <1>4, <1>5 DEF ChunkInv

\* What a load leaves behind, at once or when its worker is done.
LEMMA LoadFacts ==
    ASSUME IInv, NEW ld \in Loads, ld.chunk < N, LoadHit(ld) \/ LoadStart(ld) \/ LoadSync(ld)
    PROVE  /\ short \subseteq short'
           /\ \A b \in Bufs : b # ld.buf => src'[b] = src[b]
           /\ IF jobPending' THEN job'.chunk = ld.chunk /\ job'.buf = ld.buf /\ job'.st = "started"
              ELSE src'[ld.buf] = ld.chunk \/ ld.chunk \in short'
           /\ sec'.busy = sec.busy
           /\ sec.from # ld.buf => sec'.val = sec.val
<1> USE DEF IInv
<1>1. ld.chunk \in Nat /\ ld.buf \in Bufs /\ ld.chunk \in Content
  BY Numbers DEF Loads, Content
<1>2. src \in [Bufs -> Content] /\ sec \in [busy : BOOLEAN, from : Bufs, to : Bufs, val : Content]
  BY Types
<1>3. ASSUME NEW c, WriteSrc(ld.buf, c)
      PROVE  /\ src'[ld.buf] = c /\ \A b \in Bufs : b # ld.buf => src'[b] = src[b]
             /\ sec'.busy = sec.busy /\ (sec.from # ld.buf => sec'.val = sec.val)
  BY <1>1, <1>2, <1>3 DEF WriteSrc
<1>4. CASE LoadHit(ld)
  BY <1>3, <1>4 DEF LoadHit
<1>5. CASE LoadStart(ld)
  BY <1>5 DEF LoadStart
<1>6. CASE LoadSync(ld)
  <2>1. CASE WriteSrc(ld.buf, ld.chunk) /\ UNCHANGED short
    BY <1>3, <1>6, <2>1 DEF LoadSync
  <2>2. CASE WriteSrc(ld.buf, Bad) /\ short' = short \cup {ld.chunk}
    BY <1>3, <1>6, <2>2 DEF LoadSync
  <2> QED
    BY <1>6, <2>1, <2>2 DEF LoadSync
<1> QED
  BY <1>4, <1>5, <1>6

LEMMA LoadChunk ==
    ASSUME IInv, ~slow, ChunkInv, Load
    PROVE  ChunkInv'
<1> USE Numbers DEF IInv
<1>1. PICK ld \in Loads : /\ pc = ld.at /\ pc' = ld.then
                          /\ IF ld.chunk < N THEN LoadHit(ld) \/ LoadStart(ld) \/ LoadSync(ld)
                             ELSE UNCHANGED <<src, sec, jobVars, short, faults>>
  BY DEF Load
<1>2. UNCHANGED <<i, cur, pending, dst, view, out, desc, pass, alive>>
  BY DEF Load, loopVars
<1>3. Nxt' = Nxt /\ (HasNext' <=> HasNext)
  BY <1>2 DEF Nxt, HasNext
<1>4. \/ pc = "load0" /\ pc' = "wait0" /\ ld.chunk = i /\ ld.buf = cur
      \/ pc = "load1" /\ pc' = "kick0" /\ ld.chunk = i + 1 /\ ld.buf = Nxt
      \/ pc = "b" /\ pc' = "matmul" /\ ld.chunk = i + 2 /\ ld.buf = cur
  BY <1>1 DEF Loads, JobInv
<1>5. ~jobPending /\ (pending => pc = "b")
  BY <1>4 DEF JobInv, PollInv
<1>6. /\ short \subseteq short'
      /\ \A b \in Bufs : b # ld.buf => src'[b] = src[b]
      /\ ld.chunk < N => IF jobPending' THEN job'.chunk = ld.chunk /\ job'.buf = ld.buf /\ job'.st = "started"
                         ELSE src'[ld.buf] = ld.chunk \/ ld.chunk \in short'
      /\ sec'.busy = sec.busy
      /\ sec.from # ld.buf => sec'.val = sec.val
  <2>1. CASE ld.chunk < N
    BY <1>1, <2>1, LoadFacts
  <2>2. CASE ~(ld.chunk < N)
    BY <1>1, <2>2
  <2> QED
    BY <2>1, <2>2
<1>7. ld.chunk < N => Coming(ld.buf, ld.chunk)'
  <2>1. PICK c \in Int, b \in Bufs : c = ld.chunk /\ b = ld.buf
    BY <1>4
  <2>2. c < N => Coming(b, c)'
    BY <1>6, <2>1 DEF Coming, Has
  <2>3. ld' = ld
    OBVIOUS
  <2> QED
    BY <2>1, <2>2, <2>3
<1>8. SourceInv'
  <2>1. CASE pc = "load0"
    BY <1>2, <1>4, <1>5, <1>7, <2>1 DEF SourceInv
  <2>2. CASE pc = "load1"
    <3>1. Has(src[cur], i)'
      BY <1>2, <1>4, <1>6, <2>2 DEF ChunkInv, SourceInv, Has
    <3>2. HasNext' => Coming(Nxt, i + 1)'
      BY <1>2, <1>3, <1>4, <1>7, <2>2 DEF HasNext
    <3> QED
      BY <1>2, <1>4, <1>5, <2>2, <3>1, <3>2 DEF SourceInv
  <2>3. CASE pc = "b"
    <3>1. HasNext' => Has(src[Nxt], i + 1)'
      BY <1>2, <1>3, <1>4, <1>6, <2>3 DEF ChunkInv, SourceInv, Has
    <3>2. i' + 2 < N => Coming(cur, i + 2)'
      BY <1>2, <1>4, <1>7, <2>3
    <3>3. pending' => HasNext'
      BY <1>2, <1>3 DEF ChunkInv, SourceInv
    <3> QED
      BY <1>4, <2>3, <3>1, <3>2, <3>3 DEF SourceInv
  <2> QED
    BY <1>4, <2>1, <2>2, <2>3
<1>9. DestInv'
  BY <1>2, <1>3, <1>4, <1>6 DEF ChunkInv, DestInv, Has
<1>10. CoreInv'
  <2>1. CASE pc = "b"
    <3>1. pc' = "matmul" /\ Pair' = Pair /\ Target' = Target
      BY <1>2, <1>3, <1>4, <2>1 DEF Pair, Target
    <3>2. alive /\ sec.busy => sec.from # cur
      BY <2>1 DEF OneCommand, PollInv
    <3> QED
      BY <1>2, <1>4, <1>6, <2>1, <3>1, <3>2 DEF ChunkInv, CoreInv, Has
  <2>2. CASE pc # "b"
    <3>1. pc # "poll0" /\ ~pending
      BY <1>4, <1>5, <2>2
    <3>2. desc.result = "pending" /\ (alive => ~sec.busy)
      BY <3>1, Types DEF OneCommand, ChunkInv, CoreInv
    <3> QED
      BY <1>2, <1>6, <3>2 DEF CoreInv
  <2> QED
    BY <2>1, <2>2
<1>11. LogitsExact'
  BY <1>2, <1>4, <1>6 DEF ChunkInv, LogitsExact
<1> QED
  BY <1>8, <1>9, <1>10, <1>11 DEF ChunkInv
\* The worker is joined, or there is none to wait for.
LEMMA WaitChunk ==
    ASSUME IInv, ~slow, ChunkInv, Wait \/ NothingToWait
    PROVE  ChunkInv'
<1> USE Numbers DEF IInv
<1>1. /\ UNCHANGED <<i, cur, pending, src, dst, view, out, desc, sec, alive, short, pass>>
      /\ \/ pc = "wait0" /\ pc' = "load1" /\ Joined /\ jobPending' = FALSE
         \/ pc = "a" /\ HasNext /\ pc' = "kick" /\ Joined /\ jobPending' = FALSE
         \/ pc = "a" /\ ~HasNext /\ pc' = "b"
  BY DEF Wait, NothingToWait, loopVars, secVars
<1>2. ~pending /\ Nxt' = Nxt /\ (HasNext' <=> HasNext)
  BY <1>1 DEF PollInv, Nxt, HasNext
<1>3. SourceInv'
  <2>1. ASSUME NEW b, NEW c, Coming(b, c), Joined PROVE Has(src[b], c)
    BY <2>1 DEF Coming, Joined
  <2>2. CASE pc = "wait0"
    BY <1>1, <1>2, <2>1, <2>2 DEF ChunkInv, SourceInv, Has
  <2>3. CASE pc = "a" /\ HasNext
    BY <1>1, <1>2, <2>1, <2>3 DEF ChunkInv, SourceInv, Has
  <2>4. CASE pc = "a" /\ ~HasNext
    BY <1>1, <1>2, <2>4 DEF SourceInv
  <2> QED
    BY <1>1, <2>2, <2>3, <2>4
<1>4. DestInv'
  BY <1>1, <1>2 DEF ChunkInv, DestInv, Has
<1>5. CoreInv'
  <2>1. desc.result = "pending" /\ (alive => ~sec.busy)
    BY <1>1, <1>2, Types DEF OneCommand, ChunkInv, CoreInv
  <2> QED
    BY <1>1, <2>1 DEF CoreInv
<1>6. LogitsExact'
  BY <1>1 DEF ChunkInv, LogitsExact
<1> QED
  BY <1>3, <1>4, <1>5, <1>6 DEF ChunkInv

\* The transpose is left to the core.
LEMMA KickChunk ==
    ASSUME IInv, ~slow, ChunkInv, Kick
    PROVE  ChunkInv'
<1> USE Numbers DEF IInv
<1>1. /\ UNCHANGED <<i, cur, src, dst, view, out, sec, alive, short, pass, job, jobPending>>
      /\ \/ pc = "kick0" /\ pc' = "poll0" /\ pending' = pending
         \/ pc = "kick" /\ pc' = "b" /\ pending'
      /\ desc'.result = "pending"
  BY DEF Kick, jobVars
<1>2. ~pending /\ Nxt' = Nxt /\ (HasNext' <=> HasNext)
  BY <1>1 DEF PollInv, Nxt, HasNext
<1>3. SourceInv'
  BY <1>1, <1>2 DEF ChunkInv, SourceInv, Has, Coming
<1>4. DestInv'
  BY <1>1, <1>2 DEF ChunkInv, DestInv, Has
<1>5. CoreInv'
  <2>1. alive => ~sec.busy
    BY <1>1, <1>2, Types DEF OneCommand
  <2> QED
    BY <1>1, <2>1 DEF CoreInv
<1>6. LogitsExact'
  BY <1>1 DEF ChunkInv, LogitsExact
<1> QED
  BY <1>3, <1>4, <1>5, <1>6 DEF ChunkInv

\* What the CPU transposes arrives.
LEMMA CpuFacts ==
    ASSUME TypeOK, CpuTranspose
    PROVE  /\ dst'[Pair] = src[Pair]
           /\ \A b \in Bufs : b # Pair => dst'[b] = dst[b]
  BY Numbers DEF CpuTranspose

\* The CPU transposes because there is no mailbox to ask.
LEMMA HereChunk ==
    ASSUME IInv, ~slow, ChunkInv, TransposeHere
    PROVE  ChunkInv'
<1> USE Numbers DEF IInv
<1>1. /\ UNCHANGED <<i, cur, src, view, out, sec, alive, short, pass, job, jobPending>>
      /\ \/ pc = "kick0" /\ pc' = "a" /\ pending' = pending
         \/ pc = "kick" /\ pc' = "b" /\ ~pending'
      /\ desc' = desc \/ desc'.result = "pending"
  BY DEF TransposeHere, jobVars
<1>2. ~pending /\ Nxt' = Nxt /\ (HasNext' <=> HasNext)
  BY <1>1 DEF PollInv, Nxt, HasNext
<1>3. SourceInv'
  BY <1>1, <1>2 DEF ChunkInv, SourceInv, Has, Coming
<1>4. DestInv'
  <2>1. dst'[Pair] = src[Pair] /\ \A b \in Bufs : b # Pair => dst'[b] = dst[b]
    BY CpuFacts DEF TransposeHere
  <2>2. CASE pc = "kick0"
    <3>1. Pair = cur /\ Has(src[cur], i)
      BY <2>2 DEF Pair, ChunkInv, SourceInv
    <3> QED
      BY <1>1, <1>2, <2>1, <2>2, <3>1 DEF DestInv, Has
  <2>3. CASE pc = "kick"
    <3>1. Pair = Nxt /\ Has(src[Nxt], i + 1) /\ Has(dst[cur], i)
      BY <2>3 DEF Pair, ChunkInv, SourceInv, DestInv
    <3>2. dst'[cur] = dst[cur] /\ dst'[Nxt] = src[Nxt]
      BY <2>1, <3>1
    <3> QED
      BY <1>1, <1>2, <2>3, <3>1, <3>2 DEF DestInv, Has
  <2> QED
    BY <1>1, <2>2, <2>3
<1>5. CoreInv'
  <2>1. desc.result = "pending" /\ (alive => ~sec.busy)
    BY <1>1, <1>2, Types DEF OneCommand, ChunkInv, CoreInv
  <2> QED
    BY <1>1, <2>1 DEF CoreInv
<1>6. LogitsExact'
  BY <1>1 DEF ChunkInv, LogitsExact
<1> QED
  BY <1>3, <1>4, <1>5, <1>6 DEF ChunkInv

\* A chunk is multiplied.
LEMMA MatmulChunk ==
    ASSUME IInv, ~slow, ChunkInv, MatmulBegin \/ MatmulEnd
    PROVE  ChunkInv'
<1> USE Numbers DEF IInv
<1>1. /\ UNCHANGED <<i, cur, pending, src, dst, desc, sec, alive, short, pass, job, jobPending, slow>>
      /\ \/ pc = "matmul" /\ pc' = "dequant" /\ view' = dst[cur] /\ out' = out
         \/ /\ pc = "dequant" /\ pc' = "d" /\ view' = view
            /\ out' = [out EXCEPT ![i] = IF dst[cur] = view THEN view ELSE Bad]
  BY DEF MatmulBegin, MatmulEnd, jobVars, secVars
<1>2. Nxt' = Nxt /\ (HasNext' <=> HasNext)
  BY <1>1 DEF Nxt, HasNext
<1>3. SourceInv'
  BY <1>1, <1>2 DEF ChunkInv, SourceInv, Has, Coming
<1>4. DestInv'
  BY <1>1, <1>2 DEF ChunkInv, DestInv, Has
<1>5. CoreInv'
  BY <1>1, <1>2 DEF ChunkInv, CoreInv, Has, Pair, Target
<1>6. LogitsExact'
  <2>1. CASE pc = "matmul"
    BY <1>1, <2>1 DEF ChunkInv, LogitsExact
  <2>2. CASE pc = "dequant"
    <3>1. Has(dst[cur], i) /\ view = dst[cur]
      BY <2>2 DEF ChunkInv, DestInv
    <3>2. out'[i] = dst[cur] /\ \A c \in Chunks : c # i => out'[c] = out[c]
      BY <1>1, <2>2, <3>1
    <3> QED
      BY <1>1, <2>2, <3>1, <3>2 DEF ChunkInv, LogitsExact, Has
  <2> QED
    BY <1>1, <2>1, <2>2
<1> QED
  BY <1>3, <1>4, <1>5, <1>6 DEF ChunkInv

\* The core has nothing left to do when main goes on.
LEMMA PollCore ==
    ASSUME IInv, ~slow, ~slow', ChunkInv, PollAnswer \/ PollTimeout \/ NothingToPoll
    PROVE  CoreInv'
<1> USE DEF IInv
<1>1. desc'.result = "pending" /\ sec' = sec /\ alive' = alive
  BY Types DEF PollAnswer, PollTimeout, NothingToPoll, secVars, Polling, ChunkInv, CoreInv
<1>2. alive => ~sec.busy
  <2>1. CASE PollAnswer
    BY <2>1 DEF PollAnswer, OneCommand
  <2>2. CASE PollTimeout
    BY <2>2 DEF PollTimeout
  <2>3. CASE NothingToPoll
    BY <2>3 DEF NothingToPoll, OneCommand
  <2> QED
    BY <2>1, <2>2, <2>3
<1> QED
  BY <1>1, <1>2 DEF CoreInv

\* Main goes on: with a transpose done by the core, by the CPU, or before.
LEMMA PollChunk ==
    ASSUME IInv, ~slow, ~slow', ChunkInv, PollAnswer \/ PollTimeout \/ NothingToPoll
    PROVE  ChunkInv'
<1> USE Numbers DEF IInv
<1>1. /\ UNCHANGED <<src, view, out, sec, alive, short, pass, job, jobPending>>
      /\ ~pending' /\ desc'.result = "pending" /\ GoOn /\ (pc = "poll0" \/ pc = "d")
  <2>1. CASE PollAnswer
    BY <2>1, Types DEF PollAnswer, Polling, jobVars
  <2>2. CASE PollTimeout
    BY <2>2 DEF PollTimeout, Polling, jobVars, secVars
  <2>3. CASE NothingToPoll
    BY <2>3 DEF NothingToPoll, jobVars, secVars, ChunkInv, CoreInv
  <2> QED
    BY <2>1, <2>2, <2>3
<1>2. CASE pc = "poll0"
  <2>1. pc' = "a" /\ i' = i /\ cur' = cur /\ Nxt' = Nxt /\ (HasNext' <=> HasNext)
    BY <1>1, <1>2 DEF GoOn, Nxt, HasNext
  <2>2. Pair = cur /\ Target = i
    BY <1>2 DEF Pair, Target
  <2>3. Has(dst'[cur], i)
    <3>1. CASE dst' = dst /\ desc.result = "ok"
      BY <2>2, <3>1 DEF ChunkInv, CoreInv
    <3>2. CASE CpuTranspose
      BY <1>2, <2>2, <3>2, CpuFacts DEF ChunkInv, SourceInv
    <3> QED
      BY <1>2, <3>1, <3>2 DEF PollAnswer, PollTimeout, NothingToPoll
  <2>4. SourceInv'
    BY <1>1, <1>2, <2>1 DEF ChunkInv, SourceInv, Has, Coming
  <2>5. DestInv'
    BY <1>1, <2>1, <2>3 DEF DestInv, Has
  <2>6. LogitsExact'
    BY <1>1, <1>2, <2>1 DEF ChunkInv, LogitsExact
  <2>7. CoreInv'
    BY <1>1, <1>2, <2>1, PollCore
  <2> QED
    BY <2>4, <2>5, <2>6, <2>7 DEF ChunkInv
<1>3. CASE pc = "d"
  <2>1. Pair = Nxt /\ Target = i + 1 /\ cur' = Nxt
    BY <1>1, <1>3 DEF Pair, Target, GoOn
  <2>2. HasNext => Has(dst'[Nxt], i + 1)
    <3>1. CASE dst' = dst /\ desc.result = "ok"
      BY <2>1, <3>1 DEF ChunkInv, CoreInv
    <3>2. CASE CpuTranspose
      BY <1>3, <2>1, <3>2, CpuFacts DEF ChunkInv, SourceInv
    <3>3. CASE NothingToPoll
      BY <1>3, <3>3 DEF NothingToPoll, ChunkInv, DestInv
    <3> QED
      BY <3>1, <3>2, <3>3 DEF PollAnswer, PollTimeout
  <2>3. CASE HasNext
    <3>1. pc' = "a" /\ i' = i + 1 /\ Nxt' = cur /\ (HasNext' <=> i + 2 < N)
      BY <1>1, <1>3, <2>1, <2>3 DEF GoOn, Nxt, HasNext
    <3>2. SourceInv'
      BY <1>1, <1>3, <2>1, <3>1 DEF ChunkInv, SourceInv, Has, Coming
    <3>3. DestInv'
      BY <1>1, <2>1, <2>2, <2>3, <3>1 DEF DestInv, Has
    <3>4. LogitsExact'
      BY <1>1, <1>3, <3>1 DEF ChunkInv, LogitsExact
    <3> QED
      BY <1>1, <3>1, <3>2, <3>3, <3>4, PollCore DEF ChunkInv
  <2>4. CASE ~HasNext
    <3>1. pc' = "idle" /\ i' = i
      BY <1>1, <1>3, <2>4 DEF GoOn
    <3>2. SourceInv' /\ DestInv'
      BY <1>1, <3>1 DEF SourceInv, DestInv
    <3>3. LogitsExact'
      BY <1>1, <1>3, <3>1 DEF ChunkInv, LogitsExact
    <3> QED
      BY <1>1, <3>1, <3>2, <3>3, PollCore DEF ChunkInv
  <2> QED
    BY <2>3, <2>4
<1> QED
  BY <1>1, <1>2, <1>3
\* What a step of the worker leaves behind.
LEMMA WorkerFacts ==
    ASSUME IInv, Worker
    PROVE  /\ UNCHANGED <<pc, i, cur, pending, jobPending, dst, view, out, desc, alive, pass>>
           /\ short \subseteq short' /\ jobPending
           /\ job'.buf = job.buf /\ job'.chunk = job.chunk
           /\ job'.st = "done" => src'[job.buf] = job.chunk \/ job.chunk \in short'
           /\ \A b \in Bufs : b # job.buf => src'[b] = src[b]
           /\ sec'.busy = sec.busy /\ (sec.from # job.buf => sec'.val = sec.val)
<1> USE DEF IInv
<1>1. /\ src \in [Bufs -> Content] /\ sec \in [busy : BOOLEAN, from : Bufs, to : Bufs, val : Content]
      /\ job \in [st : {"none", "started", "reading", "done"}, chunk : Chunks, buf : Bufs]
  BY Types
<1>2. ASSUME NEW c, WriteSrc(job.buf, c)
      PROVE  /\ src'[job.buf] = c /\ \A b \in Bufs : b # job.buf => src'[b] = src[b]
             /\ sec'.busy = sec.busy /\ (sec.from # job.buf => sec'.val = sec.val)
  BY <1>1, <1>2 DEF WriteSrc
<1>3. /\ UNCHANGED <<pc, i, cur, pending, jobPending, dst, view, out, desc, alive, pass>> /\ jobPending
  BY DEF Worker, WorkerBegin, WorkerEnd, loopVars, JobInv
<1>4. CASE WorkerBegin
  <2>1. job' = [job EXCEPT !.st = "reading"] /\ WriteSrc(job.buf, Bad) /\ short' = short
    BY <1>4 DEF WorkerBegin
  <2>2. job'.st = "reading" /\ job'.buf = job.buf /\ job'.chunk = job.chunk
    BY <1>1, <2>1
  <2> QED
    BY <1>2, <1>3, <2>1, <2>2
<1>5. CASE WorkerEnd
  <2>1. job'.buf = job.buf /\ job'.chunk = job.chunk
    BY <1>1, <1>5 DEF WorkerEnd
  <2>2. CASE WriteSrc(job.buf, job.chunk) /\ UNCHANGED short
    BY <1>2, <1>3, <2>1, <2>2
  <2>3. CASE short' = short \cup {job.chunk} /\ UNCHANGED <<src, sec>>
    BY <1>3, <2>1, <2>3
  <2> QED
    BY <1>5, <2>2, <2>3 DEF WorkerEnd
<1> QED
  BY <1>4, <1>5 DEF Worker

\* The worker reads into a buffer nobody transposes from.
LEMMA WorkerChunk ==
    ASSUME IInv, ~slow, ChunkInv, Worker
    PROVE  ChunkInv'
<1> USE Numbers DEF IInv
<1>1. /\ UNCHANGED <<pc, i, cur, pending, jobPending, dst, view, out, desc, alive, pass>>
      /\ short \subseteq short' /\ jobPending
      /\ job'.buf = job.buf /\ job'.chunk = job.chunk
      /\ job'.st = "done" => src'[job.buf] = job.chunk \/ job.chunk \in short'
      /\ \A b \in Bufs : b # job.buf => src'[b] = src[b]
      /\ sec'.busy = sec.busy /\ (sec.from # job.buf => sec'.val = sec.val)
  BY WorkerFacts
<1>2. Nxt' = Nxt /\ (HasNext' <=> HasNext)
  BY <1>1 DEF Nxt, HasNext
<1>3. /\ pc \notin {"idle", "load0", "load1", "kick", "b"}
      /\ pc \in {"kick0", "poll0", "a"} => job.buf = Nxt
      /\ pc \in {"matmul", "dequant", "d"} => job.buf = cur
  BY <1>1 DEF JobInv
<1>4. SourceInv'
  <2>1. pc = "wait0" => Coming(cur, i)'
    BY <1>1 DEF ChunkInv, SourceInv, Coming, Has
  <2>2. pc \in {"kick0", "poll0"} => Has(src[cur], i)'
    BY <1>1, <1>3 DEF ChunkInv, SourceInv, Has
  <2>3. pc \in {"kick0", "poll0", "a"} /\ HasNext => Coming(Nxt, i + 1)'
    BY <1>1, <1>2 DEF ChunkInv, SourceInv, Coming, Has
  <2>4. pc \in {"matmul", "dequant", "d"} /\ HasNext => Has(src[Nxt], i + 1)'
    BY <1>1, <1>2, <1>3 DEF ChunkInv, SourceInv, Has
  <2>5. pc \in {"matmul", "dequant", "d"} /\ i + 2 < N => Coming(cur, i + 2)'
    BY <1>1 DEF ChunkInv, SourceInv, Coming, Has
  <2>6. pending => HasNext
    BY DEF ChunkInv, SourceInv
  <2> QED
    BY <1>1, <1>2, <1>3, <2>1, <2>2, <2>3, <2>4, <2>5, <2>6 DEF SourceInv
<1>5. DestInv'
  BY <1>1, <1>2 DEF ChunkInv, DestInv, Has
<1>6. CoreInv'
  <2>1. alive /\ sec.busy => sec.from # job.buf
    <3> SUFFICES ASSUME alive, sec.busy PROVE sec.from # job.buf
      OBVIOUS
    <3>1. sec.from = desc.from /\ (pc = "poll0" \/ pending)
      BY DEF OneCommand
    <3> QED
      BY <1>3, <3>1 DEF PollInv
  <2>2. Pair' = Pair /\ Target' = Target
    BY <1>1, <1>2 DEF Pair, Target
  <2> QED
    BY <1>1, <2>1, <2>2 DEF ChunkInv, CoreInv, Has
<1>7. LogitsExact'
  BY <1>1 DEF ChunkInv, LogitsExact
<1> QED
  BY <1>4, <1>5, <1>6, <1>7 DEF ChunkInv

\* The core is asked for the chunk main waits for, and transposes that one.
LEMMA CoreChunk ==
    ASSUME IInv, ~slow, ChunkInv, SecTake \/ SecEnd
    PROVE  ChunkInv'
<1> USE Numbers DEF IInv
<1>1. /\ UNCHANGED <<pc, i, cur, pending, job, jobPending, src, view, out, short, alive, pass>> /\ alive
  BY DEF SecTake, SecEnd, jobVars, loopVars
<1>2. Nxt' = Nxt /\ (HasNext' <=> HasNext) /\ Pair' = Pair /\ Target' = Target
  BY <1>1 DEF Nxt, HasNext, Pair, Target
<1>3. OneCommand /\ PollInv
  BY <1>1
<1>4. /\ pc = "poll0" \/ pending
      /\ desc.from = Pair /\ desc.to = Pair
      /\ SecEnd => sec.to = Pair /\ Has(sec.val, Target)
      /\ SecTake => desc.result = "pending"
  <2>1. (pc = "poll0" \/ pending) /\ (SecEnd => sec.to = desc.to) /\ (SecTake => desc.result = "pending")
    BY <1>3, Types DEF SecTake, SecEnd, OneCommand
  <2>2. desc.from = Pair /\ desc.to = Pair
    BY <1>3, <2>1 DEF PollInv, Pair
  <2>3. SecEnd => Has(sec.val, Target)
    BY <1>1 DEF SecEnd, ChunkInv, CoreInv
  <2> QED
    BY <2>1, <2>2, <2>3
<1>5. Has(src[Pair], Target)
  <2>1. CASE pc = "poll0"
    BY <2>1 DEF Pair, Target, ChunkInv, SourceInv
  <2>2. CASE pending
    <3>1. pc \in {"b", "matmul", "dequant", "d"} /\ HasNext
      BY <1>3, <2>2 DEF PollInv, ChunkInv, SourceInv
    <3> QED
      BY <3>1 DEF Pair, Target, ChunkInv, SourceInv
  <2> QED
    BY <1>4, <2>1, <2>2
<1>6. \A b \in Bufs : b # Pair => dst'[b] = dst[b]
  BY <1>4 DEF SecTake, SecEnd
<1>7. SourceInv'
  BY <1>1, <1>2 DEF ChunkInv, SourceInv, Coming, Has
<1>8. DestInv'
  <2>1. CASE pc = "poll0"
    BY <1>1, <2>1 DEF DestInv
  <2>2. CASE pending
    <3>1. dst'[cur] = dst[cur] /\ pc \in {"b", "matmul", "dequant", "d"}
      BY <1>3, <1>6, <2>2 DEF PollInv, Pair
    <3> QED
      BY <1>1, <1>2, <2>2, <3>1 DEF ChunkInv, DestInv, Has
  <2> QED
    BY <1>4, <2>1, <2>2
<1>9. CoreInv'
  <2>1. CASE SecEnd
    <3>1. sec'.busy = FALSE /\ dst'[Pair] = sec.val
      BY <1>4, <2>1 DEF SecEnd, Idle
    <3> QED
      BY <1>1, <1>2, <1>4, <2>1, <3>1 DEF CoreInv, Has
  <2>2. CASE SecTake /\ sec' = [busy |-> TRUE, from |-> desc.from, to |-> desc.to, val |-> src[desc.from]] /\ desc' = desc
    <3>1. sec'.val = src[Pair] /\ desc'.result = "pending"
      BY <1>4, <2>2
    <3> QED
      BY <1>1, <1>2, <1>5, <3>1 DEF CoreInv, Has
  <2>3. CASE SecTake /\ sec' = sec /\ dst' = dst /\ desc' = [desc EXCEPT !.result = "error"]
    <3>1. desc'.result = "error" /\ ~sec.busy
      BY <2>3, Types DEF SecTake
    <3> QED
      BY <1>1, <1>4, <2>3, <3>1 DEF CoreInv
  <2> QED
    BY <2>1, <2>2, <2>3 DEF SecTake
<1>10. LogitsExact'
  BY <1>1 DEF ChunkInv, LogitsExact
<1> QED
  BY <1>7, <1>8, <1>9, <1>10 DEF ChunkInv

\* Once a command was given up too early it remains so.
LEMMA SlowStays ==
    ASSUME Next, slow
    PROVE  slow'
<1>1. CASE Begin \/ Load \/ Wait \/ NothingToWait \/ Kick \/ TransposeHere
  BY <1>1 DEF Begin, Load, Wait, NothingToWait, Kick, TransposeHere
<1>2. CASE MatmulBegin \/ MatmulEnd \/ PollAnswer \/ PollTimeout \/ NothingToPoll
  BY <1>2 DEF MatmulBegin, MatmulEnd, PollAnswer, PollTimeout, NothingToPoll
<1>3. CASE Worker \/ SecTake \/ SecEnd \/ SecDies \/ Ended
  BY <1>3 DEF Worker, WorkerBegin, WorkerEnd, SecTake, SecEnd, SecDies, Ended, vars
<1> QED
  BY <1>1, <1>2, <1>3 DEF Next, Main

LEMMA NextChunk ==
    ASSUME IInv, ~slow => ChunkInv, Next, ~slow'
    PROVE  ChunkInv'
<1>1. ~slow /\ ChunkInv
  BY SlowStays
<1>2. CASE SecDies \/ Ended
  BY <1>1, <1>2, ChunkFrame DEF SecDies, Ended, vars, secVars, jobVars, loopVars
<1> QED
  BY <1>1, <1>2, BeginChunk, LoadChunk, WaitChunk, KickChunk, HereChunk, MatmulChunk, PollChunk,
     WorkerChunk, CoreChunk DEF Next, Main

\* The logits of every chunk come from that chunk of the embedding, for every number of
\* chunks, whichever of them are cached and whatever fails, except the chunks the SD card
\* did not deliver, until a command is given up that the core is still going to carry out.
THEOREM EveryChunkRight == Spec => []LogitsExact
<1>1. Init => ChunkInv
  BY DEF Init, ChunkInv, SourceInv, DestInv, CoreInv, LogitsExact, Idle
<1>2. IInv /\ (~slow => ChunkInv) /\ [Next]_vars => (~slow => ChunkInv)'
  <2> SUFFICES ASSUME IInv, ~slow => ChunkInv, [Next]_vars, ~slow' PROVE ChunkInv'
    OBVIOUS
  <2>1. CASE UNCHANGED vars
    BY <2>1, ChunkFrame DEF vars, secVars, jobVars, loopVars
  <2> QED
    BY <2>1, NextChunk
<1>3. (~slow => ChunkInv) => LogitsExact
  BY DEF ChunkInv, LogitsExact
<1> QED
  BY <1>1, <1>2, <1>3, Inductive, PTL DEF Spec
=============================================================================
