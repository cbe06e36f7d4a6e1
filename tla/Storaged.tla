------------------------------ MODULE Storaged ------------------------------
(***************************************************************************)
(* storaged (src/store/main.c): it drains the rings into the write-ahead   *)
(* log and releases a slot only after its batch is durable.  Producers     *)
(* push, the clock passes, signals arrive, the process is killed and       *)
(* restarted by the supervisor, and power vanishes, at any point.          *)
(*                                                                         *)
(* A ring is its generation and its two indices: module Ring shows that a  *)
(* ring hands out what was pushed, in order, whatever dies.  drain takes   *)
(* its slots in one step, since a slot peeked leaves no trace outside the  *)
(* process.                                                                *)
(***************************************************************************)
EXTENDS Wal

CONSTANTS
  BatchSamples,   \* WAL_BATCH_SAMPLES
  MaxPush,        \* bound: samples pushed into the rings of one boot
  MaxStops        \* bound: SIGTERM or SIGINT

ASSUME StoragedAssumption ==
  /\ BatchSamples \in Nat \ {0}
  /\ MaxPush \in Nat /\ MaxStops \in Nat
  /\ \E n \in 1 .. 2 : NS = 0 .. n - 1

VARIABLES
  rings,      \* per namespace: generation, head, tail
  srcs,       \* source_t, per namespace
  pc, ni,     \* where main is, and the namespace its loop is at
  stop,       \* g_stop
  aged,       \* the open batch is WAL_BATCH_NS old
  stops,
  released,   \* history: samples whose slots were freed
  ended,      \* history: how the last run of the process ended
  owed        \* history: samples in the batch that was open at the stop

svars == <<srcs, pc, ni, stop, aged>>
hist  == <<stops, released, ended, owed>>
vars  == <<wvars, accidents, rings, svars, hist>>

FirstNs == 0
LastNs  == Cardinality(NS) - 1

NewRings(g) == [n \in NS |-> [gen |-> g, head |-> 0, tail |-> 0]]
NoSource    == [taken |-> 0, added |-> FALSE, last_seq |-> 0, skip |-> FALSE, skip_seq |-> 0]
NoSources   == [n \in NS |-> NoSource]

Init ==
  /\ WalInit
  /\ rings = NewRings(1)
  /\ srcs = NoSources
  /\ pc = "down" /\ ni = 0 /\ stop = FALSE /\ aged = FALSE
  /\ stops = 0 /\ released = {} /\ ended = "none" /\ owed = {}

\* The samples source n holds in the open batch or has skipped.
Taken(n) == {<<n, rings[n].gen, q>> :
               q \in rings[n].tail .. rings[n].tail + srcs[n].taken - 1}

\* Those of them that are in the open batch.
Batched(n) == {s \in Taken(n) : ~(srcs[n].skip /\ s[3] <= srcs[n].skip_seq)}

---------------------------------------------------------------------------
(* Start *)

\* The process exits; the supervisor will start it again.
Exit(how) ==
  /\ srcs' = NoSources
  /\ pc' = "down" /\ ni' = 0 /\ stop' = FALSE /\ aged' = FALSE
  /\ w' = Closed /\ wop' = "none" /\ wpc' = "idle" /\ wret' = "none"
  /\ ended' = how

\* main up to wal_open: the rings are attached, the log is opened.
Start ==
  /\ pc = "down"
  /\ CallOpen
  /\ pc' = "opening"
  /\ owed' = {}
  /\ UNCHANGED <<disk, accidents, rings, srcs, ni, stop, aged, stops, released, ended>>

OpenDone ==
  /\ pc = "opening" /\ wret # "none"
  /\ \/ /\ wret = "ok"
        /\ pc' = "note_gen" /\ ni' = FirstNs
        /\ wret' = "none"
        /\ UNCHANGED <<w, wop, wpc, srcs, stop, aged, ended>>
     \/ /\ wret = "fail"
        /\ Exit("failed")
  /\ UNCHANGED <<disk, accidents, rings, stops, released, owed>>

\* Mutant: a restart takes every unread slot for new.
ResumeFromNothing(n) == NoSource

\* The slots of this very ring that the log already holds are to be skipped.
ResumeFrom(n) ==
  IF w.ring_gen[n] = rings[n].gen /\ w.ring_seq[n].has
  THEN [NoSource EXCEPT !.skip = TRUE, !.skip_seq = w.ring_seq[n].seq]
  ELSE NoSource

\* note_generation and its commit.
NoteGeneration ==
  /\ pc = "note_gen"
  /\ srcs' = [srcs EXCEPT ![ni] = ResumeFrom(ni)]
  /\ CallCommit(WalAdd(w, "GEN", ni, rings[ni].gen, 0))
  /\ pc' = "gen_wait"
  /\ UNCHANGED <<disk, accidents, rings, ni, stop, aged, hist>>

\* The check at the head of the loop.
NextTurn == IF stop THEN "stop" ELSE "drain"

NoteDone ==
  /\ pc = "gen_wait" /\ wret # "none"
  /\ \/ /\ wret = "ok"
        /\ wret' = "none"
        /\ IF ni < LastNs
           THEN pc' = "note_gen" /\ ni' = ni + 1
           ELSE pc' = NextTurn /\ ni' = FirstNs
        /\ UNCHANGED <<w, wop, wpc, srcs, stop, aged, ended>>
     \/ /\ wret = "fail"
        /\ Exit("failed")
  /\ UNCHANGED <<disk, accidents, rings, stops, released, owed>>

---------------------------------------------------------------------------
(* The loop *)

\* How many slots of ring n drain passes over, and how many it adds.
Skips(n) ==
  LET first == rings[n].tail + srcs[n].taken
      upto  == IF srcs[n].skip_seq < rings[n].head THEN srcs[n].skip_seq + 1
               ELSE rings[n].head
  IN  IF srcs[n].skip /\ upto > first THEN upto - first ELSE 0

Adds(n) ==
  LET left == rings[n].head - rings[n].tail - srcs[n].taken - Skips(n)
      room == BatchSamples - w.batch_samples
  IN  IF left < room THEN left ELSE room

\* drain
Drain ==
  /\ pc = "drain"
  /\ LET first == rings[ni].tail + srcs[ni].taken + Skips(ni)
     IN  IF w.batch_samples < BatchSamples /\ Skips(ni) + Adds(ni) > 0
         THEN /\ w' = WalAddSamples(w, ni, rings[ni].gen, first, Adds(ni))
              /\ srcs' = [srcs EXCEPT ![ni].taken = @ + Skips(ni) + Adds(ni),
                                      ![ni].added = @ \/ Adds(ni) > 0,
                                      ![ni].last_seq = first + Adds(ni) - 1]
              /\ aged' = (aged /\ w.open_batch)
         ELSE UNCHANGED <<w, srcs, aged>>
  /\ IF ni < LastNs THEN pc' = "drain" /\ ni' = ni + 1
     ELSE pc' = "decide" /\ ni' = FirstNs
  /\ UNCHANGED <<disk, wop, wpc, wret, accidents, rings, stop, hist>>

\* Mutant: only a full batch is due.
DueWhenFull == w.open_batch /\ w.batch_samples >= BatchSamples

\* wal_due
Due == w.open_batch /\ (w.batch_samples >= BatchSamples \/ aged)

AnyTaken == \E n \in NS : srcs[n].taken > 0

\* Mutant: only the first ring is noted.
NoteRingSeqsFirst(x) ==
  IF srcs[0].added THEN WalAdd(x, "RSEQ", 0, 0, srcs[0].last_seq) ELSE x

\* note_ring_seq of ring n, when it has a sample in the batch.
NoteRingSeq(x, n) ==
  IF n \in NS /\ srcs[n].added THEN WalAdd(x, "RSEQ", n, 0, srcs[n].last_seq) ELSE x

\* The same for every ring; there are at most two.
NoteRingSeqs(x) == NoteRingSeq(NoteRingSeq(x, 0), 1)

\* The batch is due, or slots were skipped and no batch is open.
Flush ==
  /\ pc = "decide"
  /\ Due \/ (AnyTaken /\ ~w.open_batch)
  /\ CallCommit(NoteRingSeqs(w))
  /\ pc' = "commit_wait"
  /\ aged' = FALSE
  /\ UNCHANGED <<disk, accidents, rings, srcs, ni, stop, hist>>

\* Nothing to flush: heartbeat, sleep, around again.
Idle ==
  /\ pc = "decide"
  /\ ~(Due \/ (AnyTaken /\ ~w.open_batch))
  /\ pc' = NextTurn
  /\ UNCHANGED <<wvars, accidents, rings, srcs, ni, stop, aged, hist>>

\* wal_commit returned: on failure start again from the rings.
FlushDone ==
  /\ pc = "commit_wait" /\ wret # "none"
  /\ wret' = "none"
  /\ \/ /\ wret = "ok"
        /\ pc' = "release"
        /\ UNCHANGED srcs
     \/ /\ wret = "fail"
        /\ srcs' = [n \in NS |-> [srcs[n] EXCEPT !.taken = 0, !.added = FALSE]]
        /\ pc' = NextTurn
  /\ UNCHANGED <<disk, w, wop, wpc, accidents, rings, ni, stop, aged, hist>>

\* ring_release of what source n has taken.
ReleaseTaken(n) ==
  /\ rings' = [rings EXCEPT ![n].tail = @ + srcs[n].taken]
  /\ released' = released \cup Taken(n)

Release ==
  /\ pc = "release"
  /\ ReleaseTaken(ni)
  /\ srcs' = [srcs EXCEPT ![ni].taken = 0, ![ni].added = FALSE]
  /\ IF ni < LastNs THEN pc' = "release" /\ ni' = ni + 1
     ELSE pc' = NextTurn /\ ni' = FirstNs
  /\ UNCHANGED <<wvars, accidents, stop, aged, stops, ended, owed>>

---------------------------------------------------------------------------
(* The stop *)

\* Mutant: the open batch is dropped.
StopDropsBatch ==
  /\ pc = "stop"
  /\ Return(IF w.open_batch THEN DropBatch(w) ELSE w, "ok")
  /\ pc' = "stop_wait"
  /\ owed' = UNION {Batched(n) : n \in NS}
  /\ UNCHANGED <<disk, accidents, rings, srcs, ni, stop, aged, stops, released, ended>>

\* Commit what is open.
Stop ==
  /\ pc = "stop"
  /\ CallCommit(NoteRingSeqs(w))
  /\ pc' = "stop_wait"
  /\ owed' = UNION {Batched(n) : n \in NS}
  /\ UNCHANGED <<disk, accidents, rings, srcs, ni, stop, aged, stops, released, ended>>

\* Only a commit that worked frees its slots; wal_close follows either way.
StopDone ==
  /\ pc = "stop_wait" /\ wret # "none"
  /\ \/ /\ wret = "ok"
        /\ pc' = "stop_release"
        /\ wret' = "none"
        /\ UNCHANGED <<w, wop, wpc>>
     \/ /\ wret = "fail"
        /\ pc' = "closing"
        /\ CallClose(w)
  /\ UNCHANGED <<disk, accidents, rings, srcs, ni, stop, aged, hist>>

StopRelease ==
  /\ pc = "stop_release"
  /\ ReleaseTaken(ni)
  /\ IF ni < LastNs
     THEN /\ pc' = "stop_release" /\ ni' = ni + 1
          /\ UNCHANGED <<w, wop, wpc, wret>>
     ELSE /\ pc' = "closing" /\ ni' = FirstNs
          /\ CallClose(w)
  /\ UNCHANGED <<disk, accidents, srcs, stop, aged, stops, ended, owed>>

\* The exit status is wal_close's result.
CloseDone ==
  /\ pc = "closing" /\ wret # "none"
  /\ Exit(IF wret = "ok" THEN "clean" ELSE "failed")
  /\ UNCHANGED <<disk, accidents, rings, stops, released, owed>>

---------------------------------------------------------------------------
(* The rest of the world *)

\* A system call of the log.
LogStep ==
  /\ pc # "down"
  /\ WalStep
  /\ UNCHANGED <<rings, svars, hist>>

Pushed == FoldLeft(LAMBDA k, n : k + rings[n].head, 0, [i \in 1 .. Cardinality(NS) |-> i - 1])

\* A producer's ring_push succeeds.
Push(n) ==
  /\ Pushed < MaxPush
  /\ rings' = [rings EXCEPT ![n].head = @ + 1]
  /\ UNCHANGED <<wvars, accidents, svars, hist>>

\* One second has passed since the batch began.
Tick ==
  /\ pc \in {"drain", "decide"} /\ w.open_batch /\ ~aged
  /\ aged' = TRUE
  /\ UNCHANGED <<wvars, accidents, rings, srcs, pc, ni, stop, hist>>

\* SIGTERM or SIGINT: on_signal.
Signal ==
  /\ pc # "down" /\ ~stop /\ stops < MaxStops
  /\ stop' = TRUE
  /\ stops' = stops + 1
  /\ UNCHANGED <<wvars, accidents, rings, srcs, pc, ni, aged, released, ended, owed>>

Gone ==
  /\ srcs' = NoSources
  /\ pc' = "down" /\ ni' = 0 /\ stop' = FALSE /\ aged' = FALSE
  /\ owed' = {}
  /\ UNCHANGED <<stops, released>>

\* kill -9 of storaged.  The rings outlive it.
Kill ==
  /\ pc # "down"
  /\ WalKilled
  /\ Gone
  /\ ended' = "killed"
  /\ UNCHANGED rings

\* The power goes; at the next boot ring_create makes fresh rings.
PowerCut ==
  /\ WalPowerCut
  /\ Gone
  /\ ended' = IF pc = "down" THEN ended ELSE "killed"
  /\ rings' = NewRings(rings[FirstNs].gen + 1)

MainStep ==
  \/ Start \/ OpenDone \/ NoteGeneration \/ NoteDone
  \/ Drain \/ Flush \/ Idle \/ FlushDone \/ Release
  \/ Stop \/ StopDone \/ StopRelease \/ CloseDone

Next ==
  \/ MainStep
  \/ LogStep
  \/ \E n \in NS : Push(n)
  \/ Tick
  \/ Signal
  \/ Kill
  \/ PowerCut

Spec == Init /\ [][Next]_vars

\* The scheduler runs storaged and its system calls finish, the supervisor
\* starts it again, and the clock advances.
Fairness == WF_vars(MainStep \/ LogStep) /\ WF_vars(Tick)

FairSpec == Spec /\ Fairness

---------------------------------------------------------------------------
(* Properties *)

\* "A kill -9 at any instant loses nothing": every sample whose slot was freed
\* is in the log, however often storaged was killed and recovered the log.
ReleasedIsLogged == released \subseteq SamplesOf(Log)

\* "A ring slot is released only after the batch holding it is durable": no
\* power cut, now or later, takes a sample whose slot was freed.
ReleasedIsDurable == released \subseteq SamplesOf(Durable)

\* No sample is in the log twice, whatever storaged had done when it was
\* killed: the restart skips exactly what is durable.
LoggedOnce ==
  LET log == Log
      at  == {i \in DOMAIN log : log[i].kind = "SAMPLE"}
  IN  Cardinality(SamplesOf(log)) = Cardinality(at)

\* Per ring, as it now is: its samples in the log's order.
RecordedIn(log) ==
  [n \in NS |-> LET at == {i \in DOMAIN log : log[i].kind = "SAMPLE" /\ log[i].ns = n
                                               /\ log[i].gen = rings[n].gen}
                IN  [k \in 1 .. Cardinality(at) |->
                       log[CHOOSE i \in at : Cardinality({m \in at : m <= i}) = k].val]]

\* The same of the log as it is; bound by a set, the log is computed once.
RecordedNow == CHOOSE f \in {RecordedIn(log) : log \in {Log}} : TRUE

Recorder == INSTANCE Recorder WITH
  pushed   <- [n \in NS |-> rings[n].head],
  recorded <- RecordedNow,
  freed    <- [n \in NS |-> rings[n].tail]

\* storaged keeps what Recorder promises through kills, failing system calls and power
\* cuts: a slot is freed only when its sample is logged, and the log holds the samples
\* of a ring in order, each once, with no gap.  A restart skips exactly what is durable,
\* and a batch that failed leaves no trace.
IsRecorder == Recorder!Spec

\* The records of the log are numbered 0, 1, 2, ... across batches, segments
\* and restarts ("seq: per log, never reused").
SeqContiguous ==
  LET log == Log
  IN  \A i \in DOMAIN log : log[i].seq = i - 1

\* boot_id "increments every boot".
BootCountsUp ==
  LET log   == Log
      boots == {i \in DOMAIN log : log[i].kind = "BOOT"}
  IN  \A i, j \in boots : i < j => log[i].boot < log[j].boot

\* A boot record says the session before ended cleanly only when the batch in
\* front of it is that session's SHUTDOWN.
CleanIsEarned ==
  LET log == Log
  IN  \A i \in DOMAIN log :
        log[i].kind = "BOOT" /\ log[i].val = PrevClean
          => i > 3 /\ log[i - 3].kind = "SHUTDOWN"

\* After an exit with status 0 the next boot reports a clean end.
CleanStopIsReported ==
  ended = "clean" /\ pc = "opening" => w.prev_end = PrevClean

\* "Clean stop: make the open batch durable, free its slots, and mark the end": after an
\* exit with status 0 the batch that was open at the stop is in the log or, its commit
\* having failed, all of it is still in the rings.
CleanStopIsWhole ==
  ended = "clean" => \/ owed \subseteq SamplesOf(Log)
                     \/ owed \cap (SamplesOf(Log) \cup released) = {}

\* wal_commit "cut[s] the file back to its last commit" when it returns -1: the
\* samples of the batch it gave up on are not in the log.
FailedBatchIsCutBack ==
  pc \in {"commit_wait", "stop_wait"} /\ wret = "fail"
    => \A n \in NS : Batched(n) \cap SamplesOf(Log) = {}

\* Whenever its producer pauses a ring is drained into the log, after any accident and,
\* the power gone, at the next boot.
EveryRingDrains == \A n \in NS : []<>(rings[n].head = rings[n].tail)
=============================================================================
