------------------------------ MODULE Shooting ------------------------------
(***************************************************************************)
(* The shooting gallery of one instance: ShootingGameMode and its World.   *)
(*                                                                         *)
(* Everything here runs in jobs of the instance, one after the other.  A   *)
(* shot may hit a grenade, whose fragments are shots too: ProcessShot is   *)
(* one job, and here a step for each shot with no other step in between.   *)
(*                                                                         *)
(* Positions are left out.  Which of the things that are in the field lies *)
(* under the point aimed at is a free choice; which things are in it, now  *)
(* or at the moment the player saw, is not.  Time is what is left of the   *)
(* phase and how many ticks ago a thing was.                               *)
(***************************************************************************)
EXTENDS Board, Sequences

CONSTANTS
    None,
    Minimum,        \* minimumToStart of the mode
    Rounds, WaveLimit, Ammo,    \* MatchConfig; 0 is kUnlimited for the last two
    WaveCap,        \* kAbsoluteWaveCap
    WaveTicks, WavePause, RoundPause, ShotGap, Rewind,  \* durations in ticks
    SnapshotCount,  \* kSnapshotCount
    Items,          \* enabled kinds: grenade, pan, paint, loader, balloon
    ItemsPerWave,   \* what kItemsPerWaveMin and Max allow
    Fragments, MaxDepth, MaxShots   \* of a trigger pull

ASSUME ShootingAssumption ==
    /\ {Minimum, Rounds, WaveCap, WaveTicks, WavePause, RoundPause, ShotGap,
        SnapshotCount, Fragments, MaxShots} \subseteq Nat \ {0}
    /\ {WaveLimit, Ammo, Rewind, MaxDepth} \cup ItemsPerWave \subseteq Nat
    /\ Rewind < SnapshotCount   \* kMaxRewindMs is 15 ticks, kSnapshotCount is 16
    /\ None \notin Player \cup Cell \cup Items

VARIABLES
    phase,      \* _phase
    left,       \* _phaseEndTick - _tick
    ticked,     \* OnTick has run, so _tick is not 0
    round,      \* _roundIndex
    wave,       \* _waveIndex
    board,      \* _board
    players,    \* _players
    things,     \* the entities of the wave, by kind: a wave has no two of a kind
    history,    \* _history, newest first: the things there at each tick
    work,       \* the shots ProcessShot has still to resolve
    processed,  \* how many it has resolved
    closes,     \* calls of EnqueueClose
    winner,     \* who the last S_RoundEnd named
    fired,      \* shots of each player in this wave
    loaders     \* loaders each player hit in this wave

worldVars == <<things, history>>
triggerVars == <<work, processed>>
ghostVars == <<fired, loaders>>
vars == <<phase, left, ticked, round, wave, board, players, things, history, work,
          processed, closes, winner, fired, loaders>>

Phase == {"Idle", "WaveActive", "WaveIntermission", "RoundIntermission", "Finished"}
Never == -1     \* of the last wave of an effect nobody has

TypeOK ==
    /\ phase \in Phase /\ ticked \in BOOLEAN
    /\ left \in 0..Max({WaveTicks, WavePause, RoundPause})
    /\ round \in 0..Rounds /\ wave \in 0 .. WaveCap - 1
    /\ board \in Boards
    /\ players \in [Player -> [present : BOOLEAN, ammo : 0..Ammo, score : 0..Rounds,
                               cool : 0..ShotGap,
                               stunned : Never..WaveCap, blinded : Never..WaveCap]]
    /\ things \in [Items -> {"absent", "waiting", "flying", "gone"}]
    /\ history \in Seq(SUBSET Items) /\ Len(history) <= SnapshotCount
    /\ processed \in 0..MaxShots
    /\ closes \in Nat /\ winner \in Player \cup {None}

\* Effects last through a wave index; an effect a player does not have, Never.
Fresh == [present |-> TRUE, ammo |-> 0, score |-> 0, cool |-> 0,
          stunned |-> Never, blinded |-> Never]

Init ==
    /\ phase = "Idle" /\ left = 0 /\ ticked = FALSE
    /\ round = 0 /\ wave = 0
    /\ board = EmptyBoard
    /\ players = [p \in Player |-> Fresh]
    /\ things = [i \in Items |-> "absent"] /\ history = <<>>
    /\ work = <<>> /\ processed = 0
    /\ closes = 0 /\ winner = None
    /\ fired = [p \in Player |-> 0] /\ loaders = [p \in Player |-> 0]
-----------------------------------------------------------------------------
(***************************************************************************)
(* World                                                                   *)
(***************************************************************************)

\* World::BeginWave: kinds are drawn without replacement and come in later.
SpawnItems ==
    \E n \in ItemsPerWave : \E drawn \in kSubset(Min({n, Cardinality(Items)}), Items) :
        things' = [i \in Items |-> IF i \in drawn THEN "waiting" ELSE "absent"]

Flying(now) == {i \in Items : now[i] = "flying"}

\* Wrong: the ring holds one snapshot less.
RecordSnapshotShort(now) == SubSeq(<<Flying(now)>> \o history, 1, SnapshotCount - 1)

\* World::RecordSnapshot
RecordSnapshot(now) ==
    LET all == <<Flying(now)>> \o history
    IN  SubSeq(all, 1, Min({Len(all), SnapshotCount}))

\* World::Step: arrivals at a tick of their own, departures from the field.
Step ==
    \E now \in [Items -> {"absent", "waiting", "flying", "gone"}] :
        /\ \A i \in Items : \/ now[i] = things[i]
                            \/ things[i] = "waiting" /\ now[i] = "flying"
                            \/ things[i] = "flying" /\ now[i] = "gone"
        /\ things' = now
        /\ history' = RecordSnapshot(now)

\* World::ResolveAt: the snapshot of that moment, or the present when there is none.
SeenAt(age) == IF age < Len(history) THEN history[age + 1] ELSE Flying(things)

\* World::Trace: what is dead now cannot be hit however long ago the shot was.
Hittable(age) == SeenAt(age) \cap Flying(things)

Kill(i) == things' = [things EXCEPT ![i] = "gone"]
-----------------------------------------------------------------------------
(***************************************************************************)
(* Phases                                                                  *)
(***************************************************************************)

\* Wrong: a status is over a wave late.
ForWaveLate(p, w) ==
    [p EXCEPT !.stunned = IF w > @ + 1 THEN Never ELSE @,
              !.blinded = IF w > @ + 1 THEN Never ELSE @,
              !.ammo = Ammo, !.cool = 0]

\* What BeginWave does to a player: effects go by wave index, ammunition comes.
ForWave(p, w) ==
    [p EXCEPT !.stunned = IF w > @ THEN Never ELSE @,
              !.blinded = IF w > @ THEN Never ELSE @,
              !.ammo = Ammo, !.cool = 0]

BeginWave(w) ==
    /\ phase' = "WaveActive" /\ left' = WaveTicks /\ wave' = w
    /\ players' = [p \in Player |-> ForWave(players[p], w)]
    /\ SpawnItems /\ history' = <<>>
    /\ fired' = [p \in Player |-> 0] /\ loaders' = [p \in Player |-> 0]

\* Wrong: the marks of the last round stay.
BeginRoundMarked(r) ==
    /\ round' = r /\ UNCHANGED board /\ winner' = None
    /\ BeginWave(0)

BeginRound(r) ==
    /\ round' = r /\ board' = EmptyBoard /\ winner' = None
    /\ BeginWave(0)

EmptyWorld == things' = [i \in Items |-> "absent"]

EndRound(who) ==
    /\ phase' = "RoundIntermission" /\ left' = RoundPause
    /\ winner' = who
    /\ players' = IF who = None THEN players ELSE [players EXCEPT ![who].score = @ + 1]
    /\ EmptyWorld

LastWave == (WaveLimit # 0 /\ wave + 1 >= WaveLimit) \/ wave + 1 >= WaveCap

\* EndWave, of a wave whose time is over.
EndWave ==
    \/ /\ IsFull(board) \/ LastWave
       /\ EndRound(None)
       /\ UNCHANGED wave
    \/ /\ ~(IsFull(board) \/ LastWave)
       /\ phase' = "WaveIntermission" /\ left' = WavePause /\ wave' = wave + 1
       /\ EmptyWorld
       /\ UNCHANGED <<players, winner>>

\* Finish asks for the instance to be closed.
Finish == phase' = "Finished" /\ closes' = closes + 1

Idling == work = <<>>

\* The mode is a known one: RoomManager::Create makes no room of another
\* (RoomManager.cpp:31) and HandleStart starts none (Room.cpp:319), so the early return
\* that closes the instance (ShootingGameMode.cpp:41) is not reached.
OnStart ==
    /\ Idling /\ phase = "Idle"
    /\ BeginRound(0)
    /\ UNCHANGED <<ticked, triggerVars, closes>>

WaveTick ==
    /\ Idling /\ phase = "WaveActive" /\ left > 1
    /\ left' = left - 1 /\ ticked' = TRUE
    /\ players' = [p \in Player |-> [players[p] EXCEPT !.cool = Max({@ - 1, 0})]]
    /\ Step
    /\ UNCHANGED <<phase, round, wave, board, triggerVars, closes, winner, ghostVars>>

\* What the last Step does is of no use to anybody: the wave is over, and the
\* next one begins with no snapshots.
LastWaveTick ==
    /\ Idling /\ phase = "WaveActive" /\ left = 1
    /\ ticked' = TRUE
    /\ history' = <<>>
    /\ EndWave
    /\ UNCHANGED <<round, board, triggerVars, closes, ghostVars>>

PauseTick ==
    /\ Idling /\ phase \in {"WaveIntermission", "RoundIntermission"} /\ left > 1
    /\ left' = left - 1 /\ ticked' = TRUE
    /\ UNCHANGED <<phase, round, wave, board, players, worldVars, triggerVars, closes,
                   winner, ghostVars>>

NextWaveTick ==
    /\ Idling /\ phase = "WaveIntermission" /\ left = 1
    /\ ticked' = TRUE
    /\ BeginWave(wave)
    /\ UNCHANGED <<round, board, triggerVars, closes, winner>>

NextRoundTick ==
    /\ Idling /\ phase = "RoundIntermission" /\ left = 1 /\ round + 1 < Rounds
    /\ ticked' = TRUE
    /\ BeginRound(round + 1)
    /\ UNCHANGED <<triggerVars, closes>>

MatchOverTick ==
    /\ Idling /\ phase = "RoundIntermission" /\ left = 1 /\ round + 1 >= Rounds
    /\ ticked' = TRUE /\ round' = round + 1 /\ left' = 0
    /\ Finish
    /\ UNCHANGED <<wave, board, players, worldVars, triggerVars, winner, ghostVars>>

OnTick == WaveTick \/ LastWaveTick \/ PauseTick \/ NextWaveTick \/ NextRoundTick \/ MatchOverTick

\* Wrong: a match that is over is ended again when players go.
TooFewAgain(ps) == Cardinality({p \in Player : ps[p].present}) < Minimum

TooFew(ps) ==
    /\ Cardinality({p \in Player : ps[p].present}) < Minimum
    /\ phase # "Finished"

\* A match that is over begins no wave: its snapshots are of no use to anybody.
OnMemberLeft(p) ==
    /\ Idling /\ phase # "Idle" /\ players[p].present
    /\ players' = [players EXCEPT ![p].present = FALSE]
    /\ \/ TooFew(players') /\ Finish /\ history' = <<>>
       \/ ~TooFew(players') /\ UNCHANGED <<phase, closes, history>>
    /\ UNCHANGED <<left, ticked, round, wave, board, things, triggerVars, winner, ghostVars>>

\* The instance closed.
OnEnd ==
    /\ Idling /\ phase # "Idle"
    /\ phase' = "Finished" /\ EmptyWorld /\ history' = <<>>
    /\ UNCHANGED <<left, ticked, round, wave, board, players, triggerVars, closes, winner,
                   ghostVars>>
-----------------------------------------------------------------------------
(***************************************************************************)
(* Shots                                                                   *)
(***************************************************************************)

Shot(p, age, depth) == [who |-> p, age |-> age, depth |-> depth]

MayFire(p) ==
    /\ players[p].present
    /\ phase = "WaveActive"
    /\ players[p].stunned = Never
    /\ Ammo = 0 \/ players[p].ammo > 0
    /\ players[p].cool = 0

\* Wrong: ammunition is not counted down.
SpentUncounted(p) == [players EXCEPT ![p].cool = IF ticked THEN ShotGap ELSE 0]

\* _lastShotTick is the present tick, and 0 stands for no shot.
Spent(p) ==
    [players EXCEPT ![p].cool = IF ticked THEN ShotGap ELSE 0,
                    ![p].ammo = IF Ammo = 0 THEN @ ELSE @ - 1]

\* A shot may claim any tick; it reaches back Rewind ticks and not into the future.
OnFire(p, claimed) ==
    /\ Idling /\ MayFire(p)
    /\ players' = Spent(p)
    /\ fired' = [fired EXCEPT ![p] = @ + 1]
    /\ work' = <<Shot(p, Max({0, Min({claimed, Rewind})}), 0)>>
    /\ processed' = 0
    /\ UNCHANGED <<phase, left, ticked, round, wave, board, worldVars, closes, winner, loaders>>

\* ProcessShot's loop: the shots left, unless the round is over or there were too many.
Remaining(shots) ==
    /\ processed' = processed + 1
    /\ work' = IF phase' # "WaveActive" \/ processed' >= MaxShots THEN <<>> ELSE shots

MissOrTaken ==
    /\ UNCHANGED <<phase, left, board, players, things, winner, loaders>>
    /\ Remaining(Tail(work))

CellHit(shot, c) ==
    /\ Free(board, c)
    /\ board' = Claimed(board, c, shot.who)
    /\ \/ /\ CompletesLine(board', c, shot.who)
          /\ EndRound(shot.who)
       \/ /\ ~CompletesLine(board', c, shot.who)
          /\ UNCHANGED <<phase, left, players, things, winner>>
    /\ Remaining(Tail(work))
    /\ UNCHANGED loaders

Present == {p \in Player : players[p].present}

\* ApplyItemEffect: what a kind does to a player, and to whom.
Struck(kind, shot) ==
    CASE kind = "pan" -> {[players EXCEPT ![v].stunned = wave] : v \in Present}
      [] kind = "paint" -> {[players EXCEPT ![v].blinded = wave + 1] : v \in Present}
      [] kind = "loader" -> {[players EXCEPT ![shot.who].ammo = Ammo]}
      [] OTHER -> {players}

FragmentsOf(shot) ==
    IF shot.depth < MaxDepth
    THEN [n \in 1..Fragments |-> Shot(shot.who, shot.age, shot.depth + 1)] ELSE <<>>

ItemHit(shot, kind) ==
    /\ kind \in Hittable(shot.age)
    /\ Kill(kind)
    /\ players' \in Struck(kind, shot)
    /\ loaders' = IF kind = "loader" THEN [loaders EXCEPT ![shot.who] = @ + 1] ELSE loaders
    /\ UNCHANGED <<phase, left, board, winner>>
    /\ Remaining(Tail(work) \o IF kind = "grenade" THEN FragmentsOf(shot) ELSE <<>>)

ResolveOne ==
    /\ work # <<>>
    /\ LET shot == Head(work) IN
       \/ MissOrTaken
       \/ \E c \in Cell : CellHit(shot, c)
       \/ \E i \in Items : ItemHit(shot, i)
    /\ UNCHANGED <<ticked, round, wave, history, closes, fired>>
-----------------------------------------------------------------------------
Next ==
    \/ OnStart \/ OnTick \/ OnEnd \/ ResolveOne
    \/ \E p \in Player : OnMemberLeft(p)
    \/ \E p \in Player, claimed \in -1 .. Rewind + 1 : OnFire(p, claimed)

\* The tick is rescheduled, and jobs of an instance run (JobQueue.tla).
Spec == Init /\ [][Next]_vars /\ WF_vars(OnTick) /\ WF_vars(ResolveOne)
-----------------------------------------------------------------------------
\* A round is decided for exactly those who have a line on the board, at the shot
\* that completes it: CompletesLine looks at the last mark only, and shots that
\* come of other shots mark cells too.
RoundIsItsLine == \A p \in Player : HasLine(board, p) <=> winner = p

\* Shots are paid for: those of a wave and the ammunition left are no more than
\* the wave and its loaders gave, however shots and items chain.
AmmoIsAccounted ==
    Ammo # 0 => \A p \in Player : players[p].ammo + fired[p] <= Ammo * (1 + loaders[p])

\* Every moment of the wave a shot may reach back to is still recorded, so a
\* shot is never judged by the present in its place (World.h:138).
RewindIsKept ==
    phase = "WaveActive" => Len(history) >= Min({WaveTicks - left, Rewind + 1})

Mode == INSTANCE GameMode WITH
    play <- CASE phase = "Idle" -> "idle" [] phase = "Finished" -> "over" [] OTHER -> "playing"

\* A status is over with the wave it lasts through: whoever is stunned or blinded
\* while a wave is on is so for that wave or a later one.  Waves are counted anew
\* in every round and statuses are not, so the later one may be of the next round
\* (ShootingGameMode.cpp:105-115).
EffectsExpire ==
    phase = "WaveActive" => \A p \in Player :
        /\ players[p].stunned = Never \/ players[p].stunned >= wave
        /\ players[p].blinded = Never \/ players[p].blinded >= wave

\* What the instance relies on.
ModeSpec == Mode!Spec
=============================================================================
