------------------------------- MODULE LmHead -------------------------------
(* The LM head of the SmolLM2 engine: a software pipeline over the chunks of    *)
(* the embedding matrix, with two source and two destination buffers in ION.    *)
(* While the main thread multiplies chunk i out of dst[cur], the secondary core *)
(* transposes chunk i+1 from src[1-cur] to dst[1-cur] and a worker thread reads *)
(* chunk i+2 from the SD card into src[cur].  The secondary core is told        *)
(* through a mailbox and one shared descriptor; when it fails or is not heard   *)
(* of in time the CPU transposes instead.                                       *)
(* Memory is taken to be coherent between the cores (see README).               *)
EXTENDS Integers, FiniteSets

CONSTANTS
    N,          \* n_lm_chunks
    Passes,     \* passes of the LM head modelled
    MaxFault    \* failures per execution (a bound of the model)

ASSUME SizeAssumption == N \in Nat \ {0} /\ Passes \in Nat /\ MaxFault \in Nat

Chunks == 0..N-1
Bad == N                \* anything but one whole chunk
Content == 0..N
Bufs == {0, 1}

VARIABLES
    pc,         \* where the main thread is
    pass,       \* passes begun
    i,          \* the chunk of the loop (v_start / CHUNK)
    cur,        \* cur
    poolMbox,   \* pool->use_mbox: the mailbox device could be opened
    useMbox,    \* lm_use_mbox
    pending,    \* lm_xpose_pending
    jobPending, \* lm_job_pending
    job,        \* lm_job: state of its worker, chunk and source buffer
    src, dst,   \* the chunk each xpose buffer holds
    view,       \* what the matmul in progress has read in dst[cur]
    out,        \* per chunk: what its logits were computed from
    desc,       \* the descriptor in slot 0: source, destination, result
    mail,       \* commands in the mailbox
    sec,        \* the secondary core: busy with a transpose of val, or not
    alive,      \* the secondary core runs
    cached,     \* chunks that lie wholly in the DDR or the ION cache
    short,      \* chunks of this pass that the SD card did not deliver
    slow,       \* a command was given up while the secondary core was alive
    faults      \* failures so far

secVars == <<desc, mail, sec, alive>>
jobVars == <<job, jobPending>>
loopVars == <<i, cur, pending, view, out>>
vars == <<pc, pass, poolMbox, useMbox, src, dst, cached, short, slow, faults, secVars, jobVars, loopVars>>

NoJob == [st |-> "none", chunk |-> 0, buf |-> 0]
Idle == [busy |-> FALSE, from |-> 0, to |-> 0, val |-> Bad]

TypeOK ==
    /\ pc \in {"idle", "load0", "wait0", "load1", "kick0", "poll0", "a", "kick", "b",
               "matmul", "dequant", "d"}
    /\ pass \in 0..Passes /\ i \in Chunks /\ cur \in Bufs
    /\ {poolMbox, useMbox, pending, jobPending, alive, slow} \subseteq BOOLEAN
    /\ job \in [st : {"none", "started", "reading", "done"}, chunk : Chunks, buf : Bufs]
    /\ {src, dst} \subseteq [Bufs -> Content] /\ view \in Content
    /\ out \in [Chunks -> Content]
    /\ desc \in [from : Bufs, to : Bufs, result : {"pending", "ok", "error"}]
    /\ mail \in Nat
    /\ sec \in [busy : BOOLEAN, from : Bufs, to : Bufs, val : Content]
    /\ cached \subseteq Chunks /\ short \subseteq Chunks /\ faults \in 0..MaxFault

\* embed_ddr_bytes covers the first chunks and embed_ion_bytes the next ones; a
\* chunk across the border of the two is in neither.
Init ==
    /\ pc = "idle" /\ pass = 0 /\ i = 0 /\ cur = 0
    /\ poolMbox \in BOOLEAN /\ useMbox = FALSE
    /\ pending = FALSE /\ jobPending = FALSE /\ job = NoJob
    /\ src = [b \in Bufs |-> Bad] /\ dst = [b \in Bufs |-> Bad]
    /\ view = Bad /\ out = [c \in Chunks |-> Bad]
    /\ desc = [from |-> 0, to |-> 0, result |-> "pending"]
    /\ mail = 0 /\ sec = Idle /\ alive = poolMbox
    /\ \E ddr \in 0..N, gap \in {0, 1}, end \in 0..N :
         cached = {c \in Chunks : c < ddr \/ (ddr + gap <= c /\ c < end)}
    /\ short = {} /\ slow = FALSE /\ faults = 0

Fault == faults < MaxFault /\ faults' = faults + 1

\* Writing a source buffer under a transpose that reads it spoils the transpose.
WriteSrc(b, c) ==
    /\ src' = [src EXCEPT ![b] = c]
    /\ sec' = IF sec.busy /\ sec.from = b /\ sec.val # c THEN [sec EXCEPT !.val = Bad] ELSE sec

-----------------------------------------------------------------------------
(* The main thread *)

\* The mailbox is tried anew by every pass (lm_use_mbox = pool->use_mbox).  The
\* layers before the LM head have used the buffers for their weights.
Begin ==
    /\ pc = "idle" /\ pass < Passes
    /\ pass' = pass + 1 /\ pc' = "load0"
    /\ useMbox' = poolMbox
    /\ i' = 0 /\ cur' = 0 /\ pending' = FALSE /\ short' = {}
    /\ out' = [c \in Chunks |-> Bad] /\ view' = Bad
    /\ src' = [b \in Bufs |-> Bad] /\ dst' = [b \in Bufs |-> Bad]
    /\ sec' = [sec EXCEPT !.val = Bad]
    /\ UNCHANGED <<poolMbox, cached, slow, faults, desc, mail, alive, jobVars>>

HasNext == i + 1 < N
Nxt == 1 - cur

\* LM_LOAD_CHUNK: where it is used, with which chunk and buffer, and what follows.
LoadsBug ==
    {[at |-> "load0", chunk |-> 0, buf |-> cur, then |-> "wait0"],
     [at |-> "load1", chunk |-> 1, buf |-> Nxt, then |-> "kick0"],
     [at |-> "b", chunk |-> i + 2, buf |-> Nxt, then |-> "matmul"]}
Loads ==
    {[at |-> "load0", chunk |-> 0, buf |-> cur, then |-> "wait0"],
     [at |-> "load1", chunk |-> 1, buf |-> Nxt, then |-> "kick0"],
     [at |-> "b", chunk |-> i + 2, buf |-> cur, then |-> "matmul"]}

\* A hit is copied at once, a miss is left to a worker thread or, when none can be
\* created, read on the spot.
LoadHit(ld) ==
    /\ ld.chunk \in cached
    /\ WriteSrc(ld.buf, ld.chunk)
    /\ jobPending' = FALSE
    /\ UNCHANGED <<job, short, faults>>
LoadStart(ld) ==
    /\ ld.chunk \notin cached
    /\ job' = [st |-> "started", chunk |-> ld.chunk, buf |-> ld.buf]
    /\ jobPending' = TRUE
    /\ UNCHANGED <<src, sec, short, faults>>
LoadSync(ld) ==
    /\ ld.chunk \notin cached /\ Fault
    /\ \/ WriteSrc(ld.buf, ld.chunk) /\ UNCHANGED short
       \/ WriteSrc(ld.buf, Bad) /\ short' = short \cup {ld.chunk}
    /\ jobPending' = FALSE
    /\ UNCHANGED job
Load ==
    \E ld \in Loads :
        /\ pc = ld.at /\ pc' = ld.then
        /\ IF ld.chunk < N THEN LoadHit(ld) \/ LoadStart(ld) \/ LoadSync(ld)
           ELSE UNCHANGED <<src, sec, jobVars, short, faults>>
        /\ UNCHANGED <<pass, poolMbox, useMbox, dst, cached, slow, desc, mail, alive, loopVars>>

\* ef_wait: the caller does not look at what it returns.
JoinedBug == jobPending => job.st \in {"reading", "done"}
Joined == jobPending => job.st = "done"
ReapedBug == job
Reaped == IF jobPending THEN NoJob ELSE job
Wait ==
    /\ \/ pc = "wait0" /\ pc' = "load1"
       \/ pc = "a" /\ HasNext /\ pc' = "kick"
    /\ Joined
    /\ job' = Reaped /\ jobPending' = FALSE
    /\ UNCHANGED <<pass, poolMbox, useMbox, src, dst, cached, short, slow, faults, secVars, loopVars>>
NothingToWait ==
    /\ pc = "a" /\ ~HasNext /\ pc' = "b"
    /\ UNCHANGED <<pass, poolMbox, useMbox, src, dst, cached, short, slow, faults, secVars, jobVars, loopVars>>

\* The buffer pair of the transpose in hand: chunk 0's before the loop, else the next.
Pair == IF pc \in {"kick0", "poll0"} THEN cur ELSE Nxt
CpuTranspose == dst' = [dst EXCEPT ![Pair] = src[Pair]]

\* mbox_embed_xpose_async
Kick ==
    /\ useMbox
    /\ \/ pc = "kick0" /\ pc' = "poll0" /\ UNCHANGED pending
       \/ pc = "kick" /\ pc' = "b" /\ pending' = TRUE
    /\ desc' = [from |-> Pair, to |-> Pair, result |-> "pending"]
    /\ mail' = mail + 1
    /\ UNCHANGED <<pass, poolMbox, useMbox, src, dst, cached, short, slow, faults, sec, alive, jobVars, i, cur, view, out>>
\* No mailbox, or the send fails (the descriptor is written all the same).
TransposeHere ==
    /\ \/ ~useMbox /\ UNCHANGED <<desc, faults>>
       \/ useMbox /\ Fault /\ desc' = [from |-> Pair, to |-> Pair, result |-> "pending"]
    /\ \/ pc = "kick0" /\ pc' = "a" /\ UNCHANGED pending
       \/ pc = "kick" /\ pc' = "b" /\ pending' = FALSE
    /\ useMbox' = FALSE
    /\ CpuTranspose
    /\ UNCHANGED <<pass, poolMbox, src, cached, short, slow, mail, sec, alive, jobVars, i, cur, view, out>>

\* tpu_matmul_build copies dst[cur] tile by tile while the others run.
MatmulBegin ==
    /\ pc = "matmul" /\ pc' = "dequant"
    /\ view' = dst[cur]
    /\ UNCHANGED <<pass, poolMbox, useMbox, src, dst, cached, short, slow, faults, secVars, jobVars, i, cur, pending, out>>
MatmulEnd ==
    /\ pc = "dequant" /\ pc' = "d"
    /\ out' = [out EXCEPT ![i] = IF dst[cur] = view THEN view ELSE Bad]
    /\ UNCHANGED <<pass, poolMbox, useMbox, src, dst, cached, short, slow, faults, secVars, jobVars, i, cur, pending, view>>

\* The end of the preload, or of an iteration of the loop.
GoOn ==
    \/ pc = "poll0" /\ pc' = "a" /\ UNCHANGED <<i, cur>>
    \/ /\ pc = "d" /\ cur' = Nxt
       /\ IF HasNext THEN pc' = "a" /\ i' = i + 1 ELSE pc' = "idle" /\ UNCHANGED i
Polling == pc = "poll0" \/ (pc = "d" /\ pending)

\* mbox_poll_desc finds a result and resets the descriptor.
PollAnswer ==
    /\ Polling /\ desc.result # "pending"
    /\ desc' = [desc EXCEPT !.result = "pending"]
    /\ IF desc.result = "ok" THEN UNCHANGED <<useMbox, dst>>
       ELSE useMbox' = FALSE /\ CpuTranspose
    /\ GoOn /\ pending' = FALSE
    /\ UNCHANGED <<pass, poolMbox, src, cached, short, slow, faults, mail, sec, alive, jobVars, view, out>>
PollTimeoutBug ==
    /\ Polling /\ desc.result = "pending" /\ alive /\ Fault /\ slow' = TRUE
    /\ useMbox' = FALSE /\ CpuTranspose
    /\ GoOn /\ pending' = FALSE
    /\ UNCHANGED <<pass, poolMbox, src, cached, short, secVars, jobVars, view, out>>
\* It gives up after MBOX_TIMEOUT_US: the core is dead, or merely slow.
PollTimeout ==
    /\ Polling /\ desc.result = "pending"
    /\ \/ ~alive /\ UNCHANGED <<slow, faults>>
       \/ alive /\ Fault /\ slow' = TRUE
    /\ useMbox' = FALSE /\ CpuTranspose
    /\ GoOn /\ pending' = FALSE
    /\ UNCHANGED <<pass, poolMbox, src, cached, short, secVars, jobVars, view, out>>
NothingToPoll ==
    /\ pc = "d" /\ ~pending
    /\ GoOn
    /\ UNCHANGED <<pass, poolMbox, useMbox, src, dst, cached, short, slow, faults, secVars, jobVars, pending, view, out>>

Ended == pc = "idle" /\ pass = Passes /\ UNCHANGED vars

Main ==
    \/ Begin \/ Load \/ Wait \/ NothingToWait \/ Kick \/ TransposeHere
    \/ MatmulBegin \/ MatmulEnd \/ PollAnswer \/ PollTimeout \/ NothingToPoll

-----------------------------------------------------------------------------
(* The worker thread (ef_worker) *)
WorkerBegin ==
    /\ job.st = "started" /\ job' = [job EXCEPT !.st = "reading"]
    /\ WriteSrc(job.buf, Bad)
    /\ UNCHANGED <<pc, pass, poolMbox, useMbox, dst, cached, short, slow, faults, desc, mail, alive, jobPending, loopVars>>
WorkerEnd ==
    /\ job.st = "reading" /\ job' = [job EXCEPT !.st = "done"]
    /\ \/ WriteSrc(job.buf, job.chunk) /\ UNCHANGED <<short, faults>>
       \/ Fault /\ short' = short \cup {job.chunk} /\ UNCHANGED <<src, sec>>
    /\ UNCHANGED <<pc, pass, poolMbox, useMbox, dst, cached, slow, desc, mail, alive, jobPending, loopVars>>
Worker == WorkerBegin \/ WorkerEnd

-----------------------------------------------------------------------------
(* The secondary core reads the descriptor when it takes the command. *)
SecTake ==
    /\ alive /\ mail > 0 /\ ~sec.busy /\ mail' = mail - 1
    /\ \/ /\ sec' = [busy |-> TRUE, from |-> desc.from, to |-> desc.to, val |-> src[desc.from]]
          /\ dst' = [dst EXCEPT ![desc.to] = IF @ = src[desc.from] THEN @ ELSE Bad]
          /\ UNCHANGED <<desc, faults>>
       \/ Fault /\ desc' = [desc EXCEPT !.result = "error"] /\ UNCHANGED <<sec, dst>>
    /\ UNCHANGED <<pc, pass, poolMbox, useMbox, src, cached, short, slow, alive, jobVars, loopVars>>
SecEnd ==
    /\ alive /\ sec.busy /\ sec' = Idle
    /\ dst' = [dst EXCEPT ![sec.to] = sec.val]
    /\ desc' = [desc EXCEPT !.result = "ok"]
    /\ UNCHANGED <<pc, pass, poolMbox, useMbox, src, cached, short, slow, faults, mail, alive, jobVars, loopVars>>
SecDies ==
    /\ alive /\ Fault /\ alive' = FALSE
    /\ UNCHANGED <<pc, pass, poolMbox, useMbox, src, dst, cached, short, slow, desc, mail, sec, jobVars, loopVars>>

Next == Main \/ Worker \/ SecTake \/ SecEnd \/ SecDies \/ Ended

\* The threads are scheduled; a live secondary core answers in the end.
Spec ==
    /\ Init /\ [][Next]_vars
    /\ WF_vars(Main) /\ WF_vars(Worker) /\ WF_vars(SecTake \/ SecEnd)

-----------------------------------------------------------------------------
\* The logits of every chunk come from that chunk of the embedding, in every mix of
\* cached and uncached chunks, over failed sends, refused commands and a secondary
\* core that dies, even half-way: except the chunks the SD card failed to deliver
\* (ef_wait's result is ignored), and except after a command was given up that the
\* core was still going to carry out.
LogitsExact ==
    ~slow => \A c \in Chunks :
        (c < i \/ (c = i /\ pc \in {"d", "idle"})) /\ pass > 0 => out[c] = c \/ c \in short

\* No buffer is written by one party while another uses it: the worker and the
\* secondary core share no source, the secondary core and the matmul no destination.
BufferExclusive ==
    ~slow /\ alive /\ sec.busy =>
        /\ job.st = "reading" => job.buf # sec.from
        /\ pc = "dequant" => sec.to # cur

\* ef_start clears lm_job, so no load is started, and no pass ends, before the last
\* worker has been joined.
WorkerJoined == pc \in {"load0", "load1", "b", "idle"} => job.st = "none"

\* Every pass comes to an end, whichever of the others fails.
PassEnds == pc # "idle" ~> pc = "idle"
=============================================================================
