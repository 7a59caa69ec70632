-------------------------- MODULE ShootingProofs --------------------------
(***************************************************************************)
(* For any board, durations, items and number of players: a round is       *)
(* decided for who has a line, ammunition adds up, shots reach back to     *)
(* recorded moments, effects end with their wave, and the game is played   *)
(* once.                                                                   *)
(***************************************************************************)
EXTENDS Shooting, FiniteSetTheorems, WellFoundedInduction, TLAPS

(***************************************************************************)
(* Largest and least                                                       *)
(***************************************************************************)

\* Of two or three numbers one is the largest, and one the least.
LEMMA MaxOfTwo ==
    ASSUME NEW a \in Int, NEW b \in Int
    PROVE  Max({a, b}) = IF a >= b THEN a ELSE b
<1> DEFINE m == IF a >= b THEN a ELSE b
<1>1. m \in {a, b} /\ \A y \in {a, b} : m >= y
  OBVIOUS
<1>2. \A x \in {a, b} : (\A y \in {a, b} : x >= y) => x = m
  OBVIOUS
<1> QED  BY <1>1, <1>2 DEF Max

\* The smaller of two numbers.
LEMMA MinOfTwo ==
    ASSUME NEW a \in Int, NEW b \in Int
    PROVE  Min({a, b}) = IF a <= b THEN a ELSE b
<1> DEFINE m == IF a <= b THEN a ELSE b
<1>1. m \in {a, b} /\ \A y \in {a, b} : m <= y
  OBVIOUS
<1>2. \A x \in {a, b} : (\A y \in {a, b} : x <= y) => x = m
  OBVIOUS
<1> QED  BY <1>1, <1>2 DEF Min

LEMMA MaxOfThree ==
    ASSUME NEW a \in Int, NEW b \in Int, NEW c \in Int
    PROVE  /\ Max({a, b, c}) \in {a, b, c}
           /\ Max({a, b, c}) >= a /\ Max({a, b, c}) >= b /\ Max({a, b, c}) >= c
<1>1. \E x \in {a, b, c} : \A y \in {a, b, c} : x >= y
  <2>1. CASE a >= b /\ a >= c
    BY <2>1
  <2>2. CASE b >= a /\ b >= c
    BY <2>2
  <2>3. CASE c >= a /\ c >= b
    BY <2>3
  <2> QED  BY <2>1, <2>2, <2>3
<1> QED  BY <1>1 DEF Max

\* A set of numbers that is not empty and has a bound has a largest one.
LEMMA LargestElement ==
    ASSUME NEW N \in Nat, NEW S \in SUBSET (0..N), S # {}
    PROVE  Max(S) \in S /\ \A k \in S : k <= Max(S)
<1> DEFINE T == {k..N : k \in S}
<1>1. IsWellFoundedOn(StrictSubsetOrdering(Nat), FiniteSubsetsOf(Nat))
  BY FS_StrictSubsetOrderingWellFounded
<1>2. T \subseteq FiniteSubsetsOf(Nat) /\ T # {}
  <2>1. \A k \in S : k..N \subseteq Nat /\ IsFiniteSet(k..N)
    BY FS_Interval
  <2> QED  BY <2>1 DEF FiniteSubsetsOf
<1>3. PICK x \in T : \A y \in T : ~ (<<y, x>> \in StrictSubsetOrdering(Nat))
  <2> HIDE DEF T
  <2> QED  BY <1>1, <1>2, WFMin, Zenon
<1>4. PICK m \in S : x = m..N
  OBVIOUS
<1>5. ASSUME NEW k \in S, k > m PROVE FALSE
  <2>1. k..N \in T /\ k..N \subseteq Nat /\ m..N \subseteq Nat
    OBVIOUS
  <2>2. m \in m..N /\ m \notin k..N
    BY <1>5
  <2>3. k..N \subseteq m..N /\ k..N # m..N
    BY <1>5, <2>2
  <2> HIDE DEF T
  <2> QED  BY <1>3, <1>4, <2>1, <2>3 DEF StrictSubsetOrdering
<1>6. m \in S /\ \A k \in S : m >= k
  BY <1>5
<1>7. Max(S) \in S /\ \A k \in S : Max(S) >= k
  BY <1>6 DEF Max
<1> QED  BY <1>7
-----------------------------------------------------------------------------
(***************************************************************************)
(* Boards                                                                  *)
(***************************************************************************)

\* p has the k-th cell from c along an axis.
Owns(b, c, axis, k, p) == Away(c, axis, k) \in Cell /\ b[Away(c, axis, k)] = p

\* The k-th cell from one that is m further on is the (m + k)-th.
LEMMA AwayFromAway ==
    ASSUME NEW c \in Cell, NEW axis \in Axes, NEW m \in Int, NEW k \in Int
    PROVE  Away(Away(c, axis, m), axis, k) = Away(c, axis, m + k)
<1> c[1] \in Int /\ c[2] \in Int
  BY BoardAssumption DEF Cell
<1>1. CASE axis = <<1, 0>>
  BY <1>1 DEF Away
<1>2. CASE axis = <<0, 1>>
  BY <1>2 DEF Away
<1>3. CASE axis = <<1, 1>>
  BY <1>3 DEF Away
<1>4. CASE axis = <<1, -1>>
  BY <1>4 DEF Away
<1> QED  BY <1>1, <1>2, <1>3, <1>4 DEF Axes

\* No steps along an axis lead away.
LEMMA AwayNowhere ==
    ASSUME NEW c \in Cell, NEW axis \in Axes
    PROVE  Away(c, axis, 0) = c
<1> c = <<c[1], c[2]>> /\ c[1] \in Int /\ c[2] \in Int
  BY BoardAssumption DEF Cell
<1> QED  BY DEF Away, Axes

\* CountRun counts the marks next to c up to the first that is missing.
LEMMA CountRunCounts ==
    ASSUME NEW b, NEW c \in Cell, NEW axis \in Axes, NEW sign \in {1, -1}, NEW p
    PROVE  LET run == CountRun(b, c, axis, sign, p)
           IN  /\ run \in 0..WinLength
               /\ \A n \in 1..run : Owns(b, c, axis, sign * n, p)
               /\ \A k \in 0..WinLength :
                     (\A n \in 1..k : Owns(b, c, axis, sign * n, p)) => k <= run
<1> DEFINE runs == {k \in 0..WinLength : \A n \in 1..k : Owns(b, c, axis, sign * n, p)}
<1>1. WinLength \in Nat
  BY BoardAssumption
<1>2. runs \in SUBSET (0..WinLength) /\ 0 \in runs
  BY <1>1
<1>3. CountRun(b, c, axis, sign, p) = Max(runs)
  BY DEF CountRun, Owns
<1>4. Max(runs) \in runs /\ \A k \in runs : k <= Max(runs)
  <2> HIDE DEF runs
  <2> QED  BY <1>1, <1>2, LargestElement
<1> QED  BY <1>3, <1>4

\* A mark of p makes no other player a line, and none disappears.
LEMMA MarkIsOnesOwn ==
    ASSUME NEW b \in Boards, NEW c \in Cell, Free(b, c), NEW p \in Player,
           NEW q \in Player, q # p
    PROVE  HasLine(Claimed(b, c, p), q) <=> HasLine(b, q)
<1>1. \A d \in Cell : Claimed(b, c, p)[d] = q <=> b[d] = q
  BY BoardAssumption DEF Claimed, Boards, Free
<1> QED  BY <1>1 DEF HasLine

\* CompletesLine looks at the lines through the last mark only, and finds one
\* exactly when there is one, on any board that had none before.
THEOREM LastMarkDecidesLine ==
    ASSUME NEW b \in Boards, NEW c \in Cell, Free(b, c), NEW p \in Player, ~HasLine(b, p)
    PROVE  CompletesLine(Claimed(b, c, p), c, p) <=> HasLine(Claimed(b, c, p), p)
<1> DEFINE after == Claimed(b, c, p)
           fore(axis) == CountRun(after, c, axis, 1, p)
           back(axis) == CountRun(after, c, axis, -1, p)
<1>1. WinLength \in Nat /\ WinLength >= 1
  BY BoardAssumption
<1>2. after[c] = p /\ \A d \in Cell : d # c => after[d] = b[d]
  BY DEF Claimed, Boards
<1> HIDE DEF after
<1>3. ASSUME NEW axis \in Axes, 1 + fore(axis) + back(axis) >= WinLength
      PROVE  HasLine(after, p)
  <2> DEFINE f == fore(axis)  r == back(axis)
             m == IF r > WinLength - 1 THEN WinLength - 1 ELSE r
             d == Away(c, axis, -m)
  <2>1. /\ f \in 0..WinLength /\ \A n \in 1..f : Owns(after, c, axis, 1 * n, p)
        /\ r \in 0..WinLength /\ \A n \in 1..r : Owns(after, c, axis, -1 * n, p)
    BY CountRunCounts
  <2>2. 1 + f + r >= WinLength
    BY <1>3
  <2> HIDE DEF f, r
  <2>3. Owns(after, c, axis, 0, p)
    BY <1>2, AwayNowhere DEF Owns
  <2>4. m \in 0 .. WinLength - 1 /\ m <= r /\ WinLength - 1 - m <= f
    BY <1>1, <2>1, <2>2
  <2> HIDE DEF m
  <2>5. ASSUME NEW k \in 0 .. WinLength - 1
        PROVE  Owns(after, c, axis, k - m, p)
    <3>1. CASE k > m
      <4>1. k - m \in 1..f /\ 1 * (k - m) = k - m
        BY <1>1, <2>1, <2>4, <3>1
      <4> QED  BY <2>1, <4>1
    <3>2. CASE k = m
      <4>1. k - m = 0
        BY <2>4, <3>2
      <4> QED  BY <2>3, <4>1
    <3>3. CASE k < m
      <4>1. m - k \in 1..r /\ -1 * (m - k) = k - m
        BY <1>1, <2>1, <2>4, <3>3
      <4> QED  BY <2>1, <4>1
    <3> QED  BY <1>1, <2>4, <3>1, <3>2, <3>3
  <2>6. d \in Cell
    <3>1. 0 - m = -m /\ 0 \in 0 .. WinLength - 1
      BY <1>1, <2>4
    <3> QED  BY <2>5, <3>1 DEF Owns
  <2>7. ASSUME NEW k \in 0 .. WinLength - 1
        PROVE  Away(d, axis, k) = Away(c, axis, k - m)
    <3>1. -m \in Int /\ k \in Int /\ -m + k = k - m
      BY <1>1, <2>4
    <3> QED  BY <3>1, AwayFromAway
  <2> HIDE DEF d
  <2> QED  BY <2>5, <2>6, <2>7 DEF HasLine, Owns
<1>4. ASSUME HasLine(after, p)
      PROVE  \E axis \in Axes : 1 + fore(axis) + back(axis) >= WinLength
  <2>1. PICK d \in Cell, axis \in Axes : \A k \in 0 .. WinLength - 1 : Owns(after, d, axis, k, p)
    BY <1>4 DEF HasLine, Owns
  <2>2. PICK m \in 0 .. WinLength - 1 : Away(d, axis, m) = c
    <3>1. \E k \in 0 .. WinLength - 1 : ~Owns(b, d, axis, k, p)
      BY DEF HasLine, Owns
    <3> QED  BY <1>2, <2>1, <3>1 DEF Owns
  <2>3. ASSUME NEW j \in Int, m + j \in 0 .. WinLength - 1
        PROVE  Owns(after, c, axis, j, p)
    <3>1. Away(c, axis, j) = Away(d, axis, m + j)
      BY <1>1, <2>2, AwayFromAway
    <3> QED  BY <2>1, <2>3, <3>1 DEF Owns
  <2>4. fore(axis) \in Nat /\ fore(axis) >= WinLength - 1 - m
    <3> DEFINE k == WinLength - 1 - m
    <3>1. k \in 0..WinLength
      BY <1>1
    <3>2. \A n \in 1..k : Owns(after, c, axis, 1 * n, p)
      <4> TAKE n \in 1..k
      <4>1. 1 * n \in Int /\ m + 1 * n \in 0 .. WinLength - 1
        BY <1>1
      <4> QED  BY <2>3, <4>1
    <3> DEFINE f == fore(axis)
    <3>3. /\ f \in 0..WinLength
          /\ \A l \in 0..WinLength :
                (\A n \in 1..l : Owns(after, c, axis, 1 * n, p)) => l <= f
      BY CountRunCounts
    <3> HIDE DEF f
    <3>4. k <= f
      <4> HIDE DEF k
      <4> QED  BY <3>1, <3>2, <3>3
    <3>5. f \in Nat /\ f >= WinLength - 1 - m
      BY <1>1, <3>3, <3>4
    <3> QED  BY <3>5 DEF f
  <2>5. back(axis) \in Nat /\ back(axis) >= m
    <3>1. m \in 0..WinLength
      BY <1>1
    <3>2. \A n \in 1..m : Owns(after, c, axis, -1 * n, p)
      <4> TAKE n \in 1..m
      <4>1. -1 * n \in Int /\ m + (-1 * n) \in 0 .. WinLength - 1
        BY <1>1
      <4> QED  BY <2>3, <4>1
    <3> DEFINE r == back(axis)
    <3>3. /\ r \in 0..WinLength
          /\ \A l \in 0..WinLength :
                (\A n \in 1..l : Owns(after, c, axis, -1 * n, p)) => l <= r
      <4> DEFINE sign == -1  run == CountRun(after, c, axis, sign, p)
      <4>1. sign \in {1, -1} /\ sign * 0 = 0
        OBVIOUS
      <4> HIDE DEF sign
      <4>2. /\ run \in 0..WinLength
            /\ \A k \in 0..WinLength :
                (\A n \in 1..k : Owns(after, c, axis, sign * n, p)) => k <= run
        BY <4>1, CountRunCounts
      <4> QED  BY <4>2 DEF sign
    <3> HIDE DEF r
    <3>4. r \in Nat /\ r >= m
      BY <1>1, <3>1, <3>2, <3>3
    <3> QED  BY <3>4 DEF r
  <2> HIDE DEF fore, back
  <2> QED  BY <1>1, <2>4, <2>5
<1>5. CompletesLine(after, c, p) <=> \E axis \in Axes : 1 + fore(axis) + back(axis) >= WinLength
  BY DEF CompletesLine
<1> QED  BY <1>3, <1>4, <1>5 DEF after
-----------------------------------------------------------------------------

(***************************************************************************)
(* The inductive invariant                                                 *)
(***************************************************************************)

ShotRecord == [who : Player, age : Nat, depth : Nat]

PlayerRecord ==
    [present : BOOLEAN, ammo : 0..Ammo, score : 0..Rounds, cool : 0..ShotGap,
     stunned : Never..WaveCap, blinded : Never..WaveCap]

\* The types of what the runs do not bound.
CountsTyped ==
    /\ work \in Seq(ShotRecord)
    /\ fired \in [Player -> Nat] /\ loaders \in [Player -> Nat]

\* Shots are resolved while the wave is on.
Working == work # <<>> => phase = "WaveActive" /\ processed < MaxShots

\* A round that goes on is nobody's.
Undecided == phase \in {"Idle", "WaveActive", "WaveIntermission"} => winner = None

\* A round is scored once.
Scored ==
    phase # "Finished" =>
        /\ round < Rounds
        /\ phase = "Idle" => round = 0
        /\ \A p \in Player : players[p].score <= round + (IF winner = p THEN 1 ELSE 0)

\* There is a snapshot of each tick of the wave, as far as they are kept.
Recorded ==
    phase = "WaveActive" =>
        /\ left \in 1..WaveTicks
        /\ Len(history) = IF WaveTicks - left <= SnapshotCount THEN WaveTicks - left
                          ELSE SnapshotCount

GInv ==
    /\ TypeOK /\ CountsTyped
    /\ Working /\ Undecided /\ Scored /\ Recorded
    /\ RoundIsItsLine /\ AmmoIsAccounted /\ EffectsExpire
-----------------------------------------------------------------------------
(***************************************************************************)
(* The constants                                                           *)
(***************************************************************************)

\* The constants are numbers, and the snapshots reach further than a shot.
LEMMA Numbers ==
    /\ Minimum \in Nat /\ Rounds \in Nat /\ WaveCap \in Nat /\ WaveTicks \in Nat
    /\ WavePause \in Nat /\ RoundPause \in Nat /\ ShotGap \in Nat /\ SnapshotCount \in Nat
    /\ Fragments \in Nat /\ MaxShots \in Nat /\ WaveLimit \in Nat /\ Ammo \in Nat
    /\ Rewind \in Nat /\ MaxDepth \in Nat
    /\ Rounds >= 1 /\ WaveCap >= 1 /\ WaveTicks >= 1 /\ MaxShots >= 1 /\ WavePause >= 1
    /\ RoundPause >= 1
    /\ Rewind < SnapshotCount /\ None \notin Player
BY ShootingAssumption

\* What a phase may last.
LEMMA Durations ==
    /\ Max({WaveTicks, WavePause, RoundPause}) \in Nat
    /\ {0, WaveTicks, WavePause, RoundPause} \subseteq 0..Max({WaveTicks, WavePause, RoundPause})
<1> DEFINE m == Max({WaveTicks, WavePause, RoundPause})
<1>1. m \in {WaveTicks, WavePause, RoundPause} /\ m >= WaveTicks /\ m >= WavePause /\ m >= RoundPause
  <2>1. WaveTicks \in Int /\ WavePause \in Int /\ RoundPause \in Int
    BY Numbers
  <2> QED  BY <2>1, MaxOfThree, Zenon
<1> HIDE DEF m
<1>2. m \in Nat /\ {0, WaveTicks, WavePause, RoundPause} \subseteq 0..m
  BY <1>1, Numbers
<1> QED  BY <1>2 DEF m

\* Nobody has a line on an empty board.
LEMMA EmptyBoardIsOpen ==
    EmptyBoard \in Boards /\ \A p \in Player : ~HasLine(EmptyBoard, p)
<1>1. EmptyBoard \in Boards /\ \A c \in Cell, p \in Player : EmptyBoard[c] # p
  BY BoardAssumption DEF EmptyBoard, Boards
<1>2. 0 \in 0 .. WinLength - 1
  BY BoardAssumption
<1> QED  BY <1>1, <1>2 DEF HasLine
-----------------------------------------------------------------------------
(***************************************************************************)
(* Waves and rounds                                                        *)
(***************************************************************************)

\* A player with other effects, ammunition and cooldown.
Set(p, s, b, a, c) == [p EXCEPT !.stunned = s, !.blinded = b, !.ammo = a, !.cool = c]

\* What Set makes of a player is a player.
LEMMA SetIsPlayer ==
    ASSUME NEW p \in PlayerRecord, NEW s \in Never..WaveCap, NEW b \in Never..WaveCap,
           NEW a \in 0..Ammo, NEW c \in 0..ShotGap
    PROVE  Set(p, s, b, a, c) \in PlayerRecord
BY DEF Set, PlayerRecord

\* The fields of what Set makes.
LEMMA SetIsSet ==
    ASSUME NEW p \in PlayerRecord, NEW s, NEW b, NEW a, NEW c
    PROVE  /\ Set(p, s, b, a, c).stunned = s /\ Set(p, s, b, a, c).blinded = b
           /\ Set(p, s, b, a, c).ammo = a /\ Set(p, s, b, a, c).cool = c
           /\ Set(p, s, b, a, c).score = p.score /\ Set(p, s, b, a, c).present = p.present
BY DEF Set, PlayerRecord

\* The effects that are over are taken off a player, the others are left.
LEMMA ForWaveOf ==
    ASSUME NEW p \in PlayerRecord, NEW w \in 0 .. WaveCap - 1
    PROVE  LET q == ForWave(p, w)
           IN  /\ q \in PlayerRecord /\ q.ammo = Ammo /\ q.score = p.score
               /\ q.stunned = Never \/ q.stunned >= w
               /\ q.blinded = Never \/ q.blinded >= w
<1> DEFINE s == IF w > p.stunned THEN Never ELSE p.stunned
           b == IF w > p.blinded THEN Never ELSE p.blinded
<1>1. /\ s \in Never..WaveCap /\ b \in Never..WaveCap
      /\ s = Never \/ s >= w
      /\ b = Never \/ b >= w
  BY Numbers DEF PlayerRecord, Never
<1>2. ForWave(p, w) = Set(p, s, b, Ammo, 0)
  BY DEF ForWave, Set
<1>3. Ammo \in 0..Ammo /\ 0 \in 0..ShotGap
  BY Numbers
<1> HIDE DEF s, b
<1> DEFINE q == Set(p, s, b, Ammo, 0)
<1>4. q \in PlayerRecord
  BY <1>1, <1>3, SetIsPlayer
<1>5. q.stunned = s /\ q.blinded = b /\ q.ammo = Ammo /\ q.score = p.score
  BY SetIsSet
<1> HIDE DEF q
<1> QED  BY <1>1, <1>2, <1>4, <1>5 DEF q

\* What a wave that begins leaves of the invariant to be seen to.
LEMMA BeginWaveKeeps ==
    ASSUME GInv, NEW w \in 0 .. WaveCap - 1, BeginWave(w), work = <<>>,
           board' \in Boards, round' \in 0..Rounds, round' < Rounds,
           ticked' \in BOOLEAN, winner' = None, UNCHANGED <<triggerVars, closes>>,
           \A p \in Player : ~HasLine(board', p),
           \A p \in Player : players[p].score <= round'
    PROVE  GInv'
<1>1. /\ phase' = "WaveActive" /\ left' = WaveTicks /\ wave' = w
      /\ players' = [p \in Player |-> ForWave(players[p], w)]
      /\ history' = <<>> /\ fired' = [p \in Player |-> 0] /\ loaders' = [p \in Player |-> 0]
      /\ things' \in [Items -> {"absent", "waiting", "flying", "gone"}]
  BY DEF BeginWave, SpawnItems
<1>2. players \in [Player -> PlayerRecord]
  BY DEF GInv, TypeOK, PlayerRecord
<1>3. /\ players' \in [Player -> PlayerRecord]
      /\ \A p \in Player :
            /\ players'[p].ammo = Ammo /\ players'[p].score = players[p].score
            /\ players'[p].stunned = Never \/ players'[p].stunned >= w
            /\ players'[p].blinded = Never \/ players'[p].blinded >= w
  BY <1>1, <1>2, ForWaveOf
<1>4. TypeOK'
  <2>1. phase' \in Phase /\ wave' \in 0 .. WaveCap - 1
    BY <1>1 DEF Phase
  <2>2. left' \in 0..Max({WaveTicks, WavePause, RoundPause})'
    BY <1>1, Durations
  <2>3. history' \in Seq(SUBSET Items) /\ Len(history') <= SnapshotCount
    BY <1>1, Numbers
  <2>4. processed' \in 0..MaxShots /\ closes' \in Nat
    BY DEF GInv, TypeOK, triggerVars
  <2>5. players' \in [Player -> [present : BOOLEAN, ammo : 0..Ammo, score : 0..Rounds,
                                 cool : 0..ShotGap,
                                 stunned : Never..WaveCap, blinded : Never..WaveCap]]
    BY <1>3 DEF PlayerRecord
  <2> QED  BY <1>1, <2>1, <2>2, <2>3, <2>4, <2>5 DEF TypeOK
<1>5. CountsTyped'
  BY <1>1 DEF GInv, CountsTyped, triggerVars
<1>6. Working' /\ Undecided'
  BY <1>1 DEF Working, Undecided, triggerVars
<1>7. Scored'
  <2>1. \A p \in Player : players'[p].score <= round' + (IF winner' = p THEN 1 ELSE 0)
    <3> TAKE p \in Player
    <3>1. players'[p].score <= round' /\ winner' # p
      BY <1>3, Numbers
    <3> QED  BY <3>1
  <2> QED  BY <1>1, <2>1 DEF Scored
<1>8. Recorded'
  BY <1>1, Numbers DEF Recorded
<1>9. RoundIsItsLine'
  BY Numbers DEF RoundIsItsLine
<1>10. AmmoIsAccounted'
  <2>1. Ammo + 0 <= Ammo * (1 + 0)
    BY Numbers
  <2> QED  BY <1>1, <1>3, <2>1 DEF AmmoIsAccounted
<1>11. EffectsExpire'
  BY <1>1, <1>3 DEF EffectsExpire
<1> QED  BY <1>4, <1>5, <1>6, <1>7, <1>8, <1>9, <1>10, <1>11 DEF GInv

\* The first wave of a round is on an empty board.
LEMMA BeginRoundKeeps ==
    ASSUME GInv, NEW r \in 0..Rounds, r < Rounds, BeginRound(r), work = <<>>,
           ticked' \in BOOLEAN, UNCHANGED <<triggerVars, closes>>,
           \A p \in Player : players[p].score <= r
    PROVE  GInv'
<1>1. round' = r /\ board' = EmptyBoard /\ winner' = None /\ BeginWave(0)
  BY DEF BeginRound
<1>2. 0 \in 0 .. WaveCap - 1
  BY Numbers
<1> QED  BY <1>1, <1>2, EmptyBoardIsOpen, BeginWaveKeeps

\* The match starts with its first round.
LEMMA OnStartKeeps == GInv /\ OnStart => GInv'
<1> SUFFICES ASSUME GInv, OnStart PROVE GInv'
  OBVIOUS
<1>1. /\ work = <<>> /\ phase = "Idle" /\ BeginRound(0)
      /\ UNCHANGED <<ticked, triggerVars, closes>>
  BY DEF OnStart, Idling
<1>2. 0 \in 0..Rounds /\ 0 < Rounds
  BY Numbers
<1>3. ticked' \in BOOLEAN
  BY <1>1 DEF GInv, TypeOK
<1>4. \A p \in Player : players[p].score <= 0
  BY <1>1, Numbers DEF GInv, Scored, Undecided
<1> QED  BY <1>1, <1>2, <1>3, <1>4, BeginRoundKeeps

-----------------------------------------------------------------------------
(***************************************************************************)
(* Ticks                                                                   *)
(***************************************************************************)

\* Some statuses and their waves, as they are.
LEMMA PlayersTyped ==
    ASSUME GInv, NEW p \in Player
    PROVE  /\ players \in [Player -> PlayerRecord] /\ players[p] \in PlayerRecord
           /\ players[p].score \in Nat /\ players[p].ammo \in Nat
           /\ players[p].stunned \in Int /\ players[p].blinded \in Int
           /\ fired[p] \in Nat /\ loaders[p] \in Nat
<1>1. players \in [Player -> PlayerRecord]
  BY DEF GInv, TypeOK, PlayerRecord
<1>2. players[p] \in PlayerRecord /\ fired[p] \in Nat /\ loaders[p] \in Nat
  BY <1>1 DEF GInv, CountsTyped
<1> QED  BY <1>1, <1>2, Numbers DEF PlayerRecord, Never

\* The snapshot of a tick is kept, and the oldest goes when there are too many.
LEMMA SnapshotRecorded ==
    ASSUME NEW now \in [Items -> {"absent", "waiting", "flying", "gone"}],
           history \in Seq(SUBSET Items), Len(history) <= SnapshotCount
    PROVE  /\ RecordSnapshot(now) \in Seq(SUBSET Items)
           /\ Len(RecordSnapshot(now)) = IF Len(history) < SnapshotCount THEN Len(history) + 1
                                         ELSE SnapshotCount
<1> DEFINE all == <<Flying(now)>> \o history
           n == Min({Len(all), SnapshotCount})
<1>1. Flying(now) \in SUBSET Items
  BY DEF Flying
<1>2. all \in Seq(SUBSET Items) /\ Len(all) = Len(history) + 1 /\ Len(history) \in Nat
  BY <1>1
<1> HIDE DEF all
<1>3. n = IF Len(history) < SnapshotCount THEN Len(history) + 1 ELSE SnapshotCount
  <2>1. Len(all) \in Int /\ SnapshotCount \in Int
    BY <1>2, Numbers
  <2>2. n = IF Len(all) <= SnapshotCount THEN Len(all) ELSE SnapshotCount
    BY <2>1, MinOfTwo
  <2> QED  BY <1>2, <2>2, Numbers
<1>4. n \in 0..Len(all)
  BY <1>2, <1>3, Numbers
<1> HIDE DEF n
<1>5. SubSeq(all, 1, n) \in Seq(SUBSET Items) /\ Len(SubSeq(all, 1, n)) = n
  BY <1>2, <1>4
<1>6. RecordSnapshot(now) = SubSeq(all, 1, n)
  BY DEF RecordSnapshot, all, n
<1> QED  BY <1>3, <1>5, <1>6

\* A tick of the wave cools weapons, moves things and records them.
LEMMA WaveTickKeeps ==
    ASSUME GInv, WaveTick
    PROVE  GInv'
<1>1. /\ work = <<>> /\ phase = "WaveActive" /\ left > 1 /\ left' = left - 1 /\ ticked' = TRUE
      /\ players' = [p \in Player |-> [players[p] EXCEPT !.cool = Max({@ - 1, 0})]]
      /\ UNCHANGED <<phase, round, wave, board, triggerVars, closes, winner, ghostVars>>
  BY DEF WaveTick, Idling
<1>2. PICK now \in [Items -> {"absent", "waiting", "flying", "gone"}] :
         things' = now /\ history' = RecordSnapshot(now)
  BY DEF WaveTick, Step
<1>3. ASSUME NEW p \in Player
      PROVE  /\ players'[p] \in PlayerRecord
             /\ players'[p].ammo = players[p].ammo /\ players'[p].score = players[p].score
             /\ players'[p].stunned = players[p].stunned
             /\ players'[p].blinded = players[p].blinded
  <2> DEFINE c == Max({players[p].cool - 1, 0})
  <2>1. players[p] \in PlayerRecord /\ players[p].cool \in 0..ShotGap
    BY PlayersTyped DEF PlayerRecord
  <2>2. players[p].cool - 1 \in Int
    BY <2>1, Numbers
  <2>3. c = IF players[p].cool - 1 >= 0 THEN players[p].cool - 1 ELSE 0
    BY <2>2, MaxOfTwo
  <2>4. c \in 0..ShotGap
    BY <2>1, <2>3, Numbers
  <2>5. players'[p] = [players[p] EXCEPT !.cool = c]
    BY <1>1
  <2> HIDE DEF c
  <2>6. players'[p] \in PlayerRecord
    BY <2>1, <2>4, <2>5 DEF PlayerRecord
  <2> QED  BY <2>1, <2>5, <2>6 DEF PlayerRecord
<1>4. players' \in [Player -> PlayerRecord]
  BY <1>1, <1>3
<1>5. /\ history' \in Seq(SUBSET Items)
      /\ Len(history') = IF Len(history) < SnapshotCount THEN Len(history) + 1 ELSE SnapshotCount
  BY <1>2, SnapshotRecorded DEF GInv, TypeOK
<1>6. left \in 1..WaveTicks /\ left' \in 1..WaveTicks
  <2>1. left \in 1..WaveTicks
    BY <1>1 DEF GInv, Recorded
  <2>2. left' = left - 1 /\ left > 1
    BY <1>1
  <2> QED  BY <2>1, <2>2, Numbers
<1>7. TypeOK'
  <2>1. left' \in 0..Max({WaveTicks, WavePause, RoundPause})'
    <3>1. left \in 0..Max({WaveTicks, WavePause, RoundPause}) /\ left' = left - 1 /\ left > 1
      BY <1>1 DEF GInv, TypeOK
    <3> QED  BY <3>1, Durations
  <2>2. Len(history') <= SnapshotCount
    <3>1. Len(history) \in Nat
      BY DEF GInv, TypeOK
    <3> QED  BY <1>5, <3>1, Numbers
  <2>3. players' \in [Player -> [present : BOOLEAN, ammo : 0..Ammo, score : 0..Rounds,
                                 cool : 0..ShotGap,
                                 stunned : Never..WaveCap, blinded : Never..WaveCap]]
    BY <1>4 DEF PlayerRecord
  <2> QED  BY <1>1, <1>2, <1>5, <2>1, <2>2, <2>3 DEF GInv, TypeOK, triggerVars
<1>8. CountsTyped' /\ Working' /\ Undecided' /\ RoundIsItsLine'
  BY <1>1 DEF GInv, CountsTyped, Working, Undecided, RoundIsItsLine, triggerVars, ghostVars
<1>9. Scored' /\ AmmoIsAccounted' /\ EffectsExpire'
  BY <1>1, <1>3 DEF GInv, Scored, AmmoIsAccounted, EffectsExpire, ghostVars
<1>10. Recorded'
  <2>1. Len(history) = IF WaveTicks - left <= SnapshotCount THEN WaveTicks - left ELSE SnapshotCount
    BY <1>1 DEF GInv, Recorded
  <2>2. WaveTicks - left' = (WaveTicks - left) + 1 /\ WaveTicks - left \in Nat
    <3>1. left \in Int /\ left <= WaveTicks /\ WaveTicks \in Int
      BY <1>6, Numbers
    <3>2. left' = left - 1
      BY <1>1
    <3> QED  BY <3>1, <3>2
  <2>3. Len(history') = IF WaveTicks - left' <= SnapshotCount THEN WaveTicks - left' ELSE SnapshotCount
    <3> DEFINE gone == WaveTicks - left
    <3> HIDE DEF gone
    <3>1. gone \in Nat /\ Len(history) = IF gone <= SnapshotCount THEN gone ELSE SnapshotCount
      BY <2>1, <2>2 DEF gone
    <3>2. Len(history') = IF gone + 1 <= SnapshotCount THEN gone + 1 ELSE SnapshotCount
      BY <1>5, <3>1, Numbers
    <3> QED  BY <2>2, <3>2 DEF gone
  <2> QED  BY <1>6, <2>3 DEF Recorded
<1> QED  BY <1>7, <1>8, <1>9, <1>10 DEF GInv

\* Nothing but what is left of a pause goes by.
LEMMA PauseTickKeeps ==
    ASSUME GInv, PauseTick
    PROVE  GInv'
<1>1. /\ phase \in {"WaveIntermission", "RoundIntermission"} /\ left > 1 /\ left' = left - 1
      /\ ticked' = TRUE
      /\ UNCHANGED <<phase, round, wave, board, players, worldVars, triggerVars, closes,
                     winner, ghostVars>>
  BY DEF PauseTick
<1> USE DEF worldVars, triggerVars, ghostVars
<1>2. left' \in 0..Max({WaveTicks, WavePause, RoundPause})'
  BY <1>1, Durations DEF GInv, TypeOK
<1>3. TypeOK'
  BY <1>1, <1>2 DEF GInv, TypeOK
<1>4. CountsTyped' /\ Working' /\ Undecided' /\ RoundIsItsLine'
  BY <1>1 DEF GInv, CountsTyped, Working, Undecided, RoundIsItsLine
<1>5. Scored' /\ AmmoIsAccounted' /\ EffectsExpire' /\ Recorded'
  BY <1>1 DEF GInv, Scored, AmmoIsAccounted, EffectsExpire, Recorded
<1> QED  BY <1>3, <1>4, <1>5 DEF GInv

\* A player that scores.
LEMMA ScoreOf ==
    ASSUME NEW p \in PlayerRecord, p.score < Rounds
    PROVE  LET q == [p EXCEPT !.score = @ + 1]
           IN  /\ q \in PlayerRecord /\ q.score = p.score + 1 /\ q.ammo = p.ammo
               /\ q.stunned = p.stunned /\ q.blinded = p.blinded
<1> DEFINE n == p.score + 1
<1>1. n \in 0..Rounds
  BY Numbers DEF PlayerRecord
<1> HIDE DEF n
<1>2. [p EXCEPT !.score = n] \in PlayerRecord
  BY <1>1 DEF PlayerRecord
<1>3. [p EXCEPT !.score = @ + 1] = [p EXCEPT !.score = n]
  BY DEF n
<1> QED  BY <1>2, <1>3 DEF PlayerRecord, n

\* A round that ends is scored for who has its line, if anybody.
LEMMA EndRoundKeeps ==
    ASSUME GInv, phase = "WaveActive", NEW who \in Player \cup {None}, EndRound(who),
           board' \in Boards, \A p \in Player : HasLine(board', p) <=> p = who,
           ticked' \in BOOLEAN, history' \in Seq(SUBSET Items), Len(history') <= SnapshotCount,
           work' = <<>>, processed' \in 0..MaxShots,
           UNCHANGED <<round, wave, closes, ghostVars>>
    PROVE  GInv'
<1>1. /\ phase' = "RoundIntermission" /\ left' = RoundPause /\ winner' = who
      /\ players' = IF who = None THEN players ELSE [players EXCEPT ![who].score = @ + 1]
      /\ things' = [i \in Items |-> "absent"]
  BY DEF EndRound, EmptyWorld
<1>2. round < Rounds /\ winner = None /\ round \in Nat
  BY Numbers DEF GInv, Scored, Undecided, TypeOK
<1>3. ASSUME NEW p \in Player
      PROVE  /\ players'[p] \in PlayerRecord /\ players'[p].ammo = players[p].ammo
             /\ players'[p].score <= round + (IF who = p THEN 1 ELSE 0)
  <2>1. players \in [Player -> PlayerRecord] /\ players[p] \in PlayerRecord /\ players[p].score \in Nat
    BY PlayersTyped
  <2>2. players[p].score <= round
    <3>1. players[p].score <= round + (IF winner = p THEN 1 ELSE 0) /\ winner = None /\ round \in Nat
      BY <1>2 DEF GInv, Scored
    <3> QED  BY <2>1, <3>1, Numbers
  <2>3. CASE p # who
    <3>1. players'[p] = players[p]
      <4>1. CASE who = None
        BY <1>1, <4>1
      <4>2. CASE who # None
        BY <1>1, <2>1, <2>3, <4>2
      <4> QED  BY <4>1, <4>2
    <3>2. round + (IF who = p THEN 1 ELSE 0) = round
      BY <1>2, <2>3
    <3>3. players'[p] \in PlayerRecord /\ players'[p].ammo = players[p].ammo
      BY <2>1, <3>1
    <3>4. players'[p].score <= round
      BY <2>2, <3>1
    <3> QED  BY <3>2, <3>3, <3>4
  <2>4. CASE p = who
    <3>1. players'[p] = [players[p] EXCEPT !.score = @ + 1]
      <4>1. who # None
        BY <2>4, Numbers
      <4> QED  BY <1>1, <2>1, <2>4, <4>1
    <3>2. players[p].score < Rounds
      BY <1>2, <2>1, <2>2, Numbers
    <3> QED  BY <1>2, <2>1, <2>2, <2>4, <3>1, <3>2, ScoreOf
  <2> QED  BY <2>3, <2>4
<1>4. players' \in [Player -> PlayerRecord]
  <2>1. players \in [Player -> PlayerRecord]
    BY DEF GInv, TypeOK, PlayerRecord
  <2>2. players' = [p \in Player |-> players'[p]]
    BY <1>1, <2>1
  <2> QED  BY <1>3, <2>2
<1>5. TypeOK'
  <2>1. left' \in 0..Max({WaveTicks, WavePause, RoundPause})'
    BY <1>1, Durations
  <2>2. players' \in [Player -> [present : BOOLEAN, ammo : 0..Ammo, score : 0..Rounds,
                                 cool : 0..ShotGap,
                                 stunned : Never..WaveCap, blinded : Never..WaveCap]]
    BY <1>4 DEF PlayerRecord
  <2>3. phase' \in Phase
    BY <1>1 DEF Phase
  <2>4. /\ round' \in 0..Rounds /\ wave' \in 0 .. WaveCap - 1 /\ closes' \in Nat
        /\ winner' \in Player \cup {None}
        /\ things' \in [Items -> {"absent", "waiting", "flying", "gone"}]
    BY <1>1 DEF GInv, TypeOK
  <2> QED  BY <2>1, <2>2, <2>3, <2>4 DEF TypeOK
<1>6. CountsTyped'
  BY DEF GInv, CountsTyped, ghostVars
<1>7. Working' /\ Undecided' /\ RoundIsItsLine' /\ Recorded' /\ EffectsExpire'
  BY <1>1 DEF Working, Undecided, RoundIsItsLine, Recorded, EffectsExpire
<1>8. Scored'
  BY <1>1, <1>2, <1>3 DEF Scored
<1>9. AmmoIsAccounted'
  BY <1>3 DEF GInv, AmmoIsAccounted, ghostVars
<1> QED  BY <1>5, <1>6, <1>7, <1>8, <1>9 DEF GInv

\* The time of a wave runs out: the round is over, undecided, or another wave comes.
LEMMA LastWaveTickKeeps ==
    ASSUME GInv, LastWaveTick
    PROVE  GInv'
<1>1. /\ work = <<>> /\ phase = "WaveActive" /\ ticked' = TRUE /\ history' = <<>> /\ EndWave
      /\ UNCHANGED <<round, board, triggerVars, closes, ghostVars>>
  BY DEF LastWaveTick, Idling
<1>2. /\ board \in Boards /\ winner = None /\ processed' \in 0..MaxShots /\ work' = <<>>
      /\ \A p \in Player : ~HasLine(board, p)
  BY <1>1, Numbers DEF GInv, TypeOK, Undecided, RoundIsItsLine, triggerVars
<1>3. history' \in Seq(SUBSET Items) /\ Len(history') <= SnapshotCount
  BY <1>1, Numbers
<1>4. CASE EndRound(None) /\ UNCHANGED wave
  <2>1. \A p \in Player : HasLine(board', p) <=> p = None
    BY <1>1, <1>2, Numbers
  <2> QED  BY <1>1, <1>2, <1>3, <1>4, <2>1, EndRoundKeeps
<1>5. CASE /\ ~(IsFull(board) \/ LastWave)
           /\ phase' = "WaveIntermission" /\ left' = WavePause /\ wave' = wave + 1
           /\ EmptyWorld
           /\ UNCHANGED <<players, winner>>
  <2>1. wave' \in 0 .. WaveCap - 1
    <3>1. wave \in 0 .. WaveCap - 1 /\ ~(wave + 1 >= WaveCap)
      BY <1>5 DEF GInv, TypeOK, LastWave
    <3> QED  BY <1>5, <3>1, Numbers
  <2>2. left' \in 0..Max({WaveTicks, WavePause, RoundPause})'
    BY <1>5, Durations
  <2>3. things' \in [Items -> {"absent", "waiting", "flying", "gone"}] /\ phase' \in Phase
    BY <1>5 DEF EmptyWorld, Phase
  <2>4. TypeOK'
    BY <1>1, <1>2, <1>3, <1>5, <2>1, <2>2, <2>3 DEF GInv, TypeOK
  <2>5. CountsTyped' /\ Working' /\ Undecided' /\ RoundIsItsLine'
    BY <1>1, <1>2, <1>5
       DEF GInv, CountsTyped, Working, Undecided, RoundIsItsLine, triggerVars, ghostVars
  <2>6. Scored' /\ AmmoIsAccounted' /\ EffectsExpire' /\ Recorded'
    BY <1>1, <1>5 DEF GInv, Scored, AmmoIsAccounted, EffectsExpire, Recorded, ghostVars
  <2> QED  BY <2>4, <2>5, <2>6 DEF GInv
<1> QED  BY <1>1, <1>4, <1>5 DEF EndWave

\* The next wave of the round.
LEMMA NextWaveTickKeeps ==
    ASSUME GInv, NextWaveTick
    PROVE  GInv'
<1>1. /\ work = <<>> /\ phase = "WaveIntermission" /\ ticked' = TRUE /\ BeginWave(wave)
      /\ UNCHANGED <<round, board, triggerVars, closes, winner>>
  BY DEF NextWaveTick, Idling
<1>2. /\ board \in Boards /\ round \in 0..Rounds /\ round < Rounds /\ winner = None
      /\ wave \in 0 .. WaveCap - 1
  BY <1>1 DEF GInv, TypeOK, Scored, Undecided
<1>3. \A p \in Player : ~HasLine(board, p) /\ players[p].score <= round
  BY <1>1, <1>2, Numbers DEF GInv, RoundIsItsLine, Scored
<1> QED  BY <1>1, <1>2, <1>3, BeginWaveKeeps

\* The next round of the match.
LEMMA NextRoundTickKeeps ==
    ASSUME GInv, NextRoundTick
    PROVE  GInv'
<1>1. /\ work = <<>> /\ phase = "RoundIntermission" /\ round + 1 < Rounds /\ ticked' = TRUE
      /\ BeginRound(round + 1)
      /\ UNCHANGED <<triggerVars, closes>>
  BY DEF NextRoundTick, Idling
<1>2. round + 1 \in 0..Rounds
  BY <1>1, Numbers DEF GInv, TypeOK
<1>3. \A p \in Player : players[p].score <= round + 1
  <2> TAKE p \in Player
  <2>1. players[p].score <= round + (IF winner = p THEN 1 ELSE 0)
    BY <1>1 DEF GInv, Scored
  <2>2. players[p].score \in Nat /\ round \in Nat
    BY PlayersTyped, Numbers DEF GInv, TypeOK
  <2> QED  BY <2>1, <2>2
<1> QED  BY <1>1, <1>2, <1>3, BeginRoundKeeps

\* After the last round the match is over.
LEMMA MatchOverTickKeeps ==
    ASSUME GInv, MatchOverTick
    PROVE  GInv'
<1>1. /\ work = <<>> /\ phase = "RoundIntermission" /\ ticked' = TRUE /\ round' = round + 1
      /\ left' = 0 /\ phase' = "Finished" /\ closes' = closes + 1
      /\ UNCHANGED <<wave, board, players, worldVars, triggerVars, winner, ghostVars>>
  BY DEF MatchOverTick, Idling, Finish
<1> USE DEF worldVars, triggerVars, ghostVars
<1>2. left' \in 0..Max({WaveTicks, WavePause, RoundPause})'
  BY <1>1, Durations
<1>3. round' \in 0..Rounds /\ closes' \in Nat /\ phase' \in Phase
  BY <1>1, Numbers DEF GInv, TypeOK, Scored, Phase
<1>4. TypeOK'
  BY <1>1, <1>2, <1>3 DEF GInv, TypeOK
<1>5. CountsTyped' /\ Working' /\ Undecided' /\ RoundIsItsLine'
  BY <1>1 DEF GInv, CountsTyped, Working, Undecided, RoundIsItsLine
<1>6. Scored' /\ AmmoIsAccounted' /\ EffectsExpire' /\ Recorded'
  BY <1>1 DEF GInv, Scored, AmmoIsAccounted, EffectsExpire, Recorded
<1> QED  BY <1>4, <1>5, <1>6 DEF GInv
-----------------------------------------------------------------------------
(***************************************************************************)
(* Players who leave, and the end                                          *)
(***************************************************************************)

\* A player who leaves keeps what it has; the match may be over.
LEMMA OnMemberLeftKeeps ==
    ASSUME GInv, NEW p \in Player, OnMemberLeft(p)
    PROVE  GInv'
<1>1. /\ work = <<>> /\ phase # "Idle"
      /\ players' = [players EXCEPT ![p].present = FALSE]
      /\ \/ phase' = "Finished" /\ closes' = closes + 1 /\ history' = <<>>
         \/ UNCHANGED <<phase, closes, history>>
      /\ UNCHANGED <<left, ticked, round, wave, board, things, triggerVars, winner, ghostVars>>
  BY DEF OnMemberLeft, Idling, Finish
<1> USE DEF triggerVars, ghostVars
<1>2. ASSUME NEW q \in Player
      PROVE  /\ players'[q] \in PlayerRecord
             /\ players'[q].ammo = players[q].ammo /\ players'[q].score = players[q].score
             /\ players'[q].stunned = players[q].stunned
             /\ players'[q].blinded = players[q].blinded
  <2>1. players \in [Player -> PlayerRecord] /\ players[q] \in PlayerRecord
    BY PlayersTyped
  <2>2. players'[q] = IF q = p THEN [players[q] EXCEPT !.present = FALSE] ELSE players[q]
    BY <1>1, <2>1
  <2>3. [players[q] EXCEPT !.present = FALSE] \in PlayerRecord
    BY <2>1 DEF PlayerRecord
  <2> QED  BY <2>1, <2>2, <2>3 DEF PlayerRecord
<1>3. players' \in [Player -> PlayerRecord]
  <2>1. players \in [Player -> PlayerRecord]
    BY PlayersTyped
  <2>2. players' = [q \in Player |-> players'[q]]
    BY <1>1, <2>1
  <2> QED  BY <1>2, <2>2
<1>4. closes' \in Nat /\ phase' \in Phase
  <2>1. closes \in Nat /\ phase \in Phase
    BY DEF GInv, TypeOK
  <2>2. CASE phase' = "Finished" /\ closes' = closes + 1
    BY <2>1, <2>2 DEF Phase
  <2>3. CASE UNCHANGED <<phase, closes>>
    BY <2>1, <2>3
  <2> QED  BY <1>1, <2>2, <2>3
<1>5. history' \in Seq(SUBSET Items) /\ Len(history') <= SnapshotCount
  <2>1. history \in Seq(SUBSET Items) /\ Len(history) <= SnapshotCount
    BY DEF GInv, TypeOK
  <2>2. CASE history' = <<>>
    BY <2>2, Numbers
  <2>3. CASE UNCHANGED history
    BY <2>1, <2>3
  <2> QED  BY <1>1, <2>2, <2>3
<1>6. TypeOK'
  <2>1. players' \in [Player -> [present : BOOLEAN, ammo : 0..Ammo, score : 0..Rounds,
                                 cool : 0..ShotGap,
                                 stunned : Never..WaveCap, blinded : Never..WaveCap]]
    BY <1>3 DEF PlayerRecord
  <2> QED  BY <1>1, <1>4, <1>5, <2>1 DEF GInv, TypeOK
<1>7. CountsTyped' /\ Working' /\ Undecided' /\ RoundIsItsLine'
  BY <1>1 DEF GInv, CountsTyped, Working, Undecided, RoundIsItsLine
<1>8. Scored' /\ AmmoIsAccounted' /\ EffectsExpire' /\ Recorded'
  BY <1>1, <1>2 DEF GInv, Scored, AmmoIsAccounted, EffectsExpire, Recorded
<1> QED  BY <1>6, <1>7, <1>8 DEF GInv

\* The end empties the field.
LEMMA OnEndKeeps ==
    ASSUME GInv, OnEnd
    PROVE  GInv'
<1>1. /\ work = <<>> /\ phase' = "Finished" /\ things' = [i \in Items |-> "absent"]
      /\ history' = <<>>
      /\ UNCHANGED <<left, ticked, round, wave, board, players, triggerVars, closes, winner,
                     ghostVars>>
  BY DEF OnEnd, Idling, EmptyWorld
<1> USE DEF triggerVars, ghostVars
<1>2. TypeOK'
  <2>1. history' \in Seq(SUBSET Items) /\ Len(history') <= SnapshotCount
    BY <1>1, Numbers
  <2> QED  BY <1>1, <2>1 DEF GInv, TypeOK, Phase
<1>3. CountsTyped' /\ Working' /\ Undecided' /\ RoundIsItsLine'
  BY <1>1 DEF GInv, CountsTyped, Working, Undecided, RoundIsItsLine
<1>4. Scored' /\ AmmoIsAccounted' /\ EffectsExpire' /\ Recorded'
  BY <1>1 DEF GInv, Scored, AmmoIsAccounted, EffectsExpire, Recorded
<1> QED  BY <1>2, <1>3, <1>4 DEF GInv
-----------------------------------------------------------------------------
(***************************************************************************)
(* Shots                                                                   *)
(***************************************************************************)

\* A shot of the trigger is one round less, and one more that was fired.
LEMMA OnFireKeeps ==
    ASSUME GInv, NEW p \in Player, NEW claimed \in -1 .. Rewind + 1, OnFire(p, claimed)
    PROVE  GInv'
<1> DEFINE age == Max({0, Min({claimed, Rewind})})
           cool == IF ticked THEN ShotGap ELSE 0
           ammo == IF Ammo = 0 THEN players[p].ammo ELSE players[p].ammo - 1
<1>1. /\ phase = "WaveActive" /\ (Ammo = 0 \/ players[p].ammo > 0)
      /\ players' = [players EXCEPT ![p].cool = cool, ![p].ammo = ammo]
      /\ fired' = [fired EXCEPT ![p] = @ + 1]
      /\ work' = <<Shot(p, age, 0)>> /\ processed' = 0
      /\ UNCHANGED <<phase, left, ticked, round, wave, board, worldVars, closes, winner, loaders>>
  BY DEF OnFire, MayFire, Spent
<1> USE DEF worldVars
<1>2. age \in Nat
  <2> DEFINE m == Min({claimed, Rewind})
  <2>1. m \in Int
    BY Numbers, MinOfTwo
  <2> HIDE DEF m
  <2>2. Max({0, m}) = IF 0 >= m THEN 0 ELSE m
    BY <2>1, MaxOfTwo
  <2>3. Max({0, m}) \in Nat
    BY <2>1, <2>2
  <2> QED  BY <2>3 DEF m
<1> HIDE DEF age
<1>3. ammo \in 0..Ammo /\ cool \in 0..ShotGap /\ (Ammo # 0 => ammo = players[p].ammo - 1)
  BY <1>1, Numbers, PlayersTyped DEF PlayerRecord
<1> HIDE DEF ammo, cool
<1>4. ASSUME NEW q \in Player
      PROVE  /\ players'[q] \in PlayerRecord /\ players'[q].score = players[q].score
             /\ players'[q].ammo = IF q = p THEN ammo ELSE players[q].ammo
             /\ players'[q].stunned = players[q].stunned
             /\ players'[q].blinded = players[q].blinded
  <2>1. players \in [Player -> PlayerRecord] /\ players[q] \in PlayerRecord
    BY PlayersTyped
  <2>2. players'[q] = IF q = p THEN [players[q] EXCEPT !.cool = cool, !.ammo = ammo]
                      ELSE players[q]
    BY <1>1, <2>1
  <2>3. [players[q] EXCEPT !.cool = cool, !.ammo = ammo] \in PlayerRecord
    BY <1>3, <2>1 DEF PlayerRecord
  <2> QED  BY <2>1, <2>2, <2>3 DEF PlayerRecord
<1>5. players' \in [Player -> PlayerRecord]
  <2>1. players \in [Player -> PlayerRecord]
    BY PlayersTyped
  <2>2. players' = [q \in Player |-> players'[q]]
    BY <1>1, <2>1
  <2> QED  BY <1>4, <2>2
<1>6. TypeOK'
  <2>1. players' \in [Player -> [present : BOOLEAN, ammo : 0..Ammo, score : 0..Rounds,
                                 cool : 0..ShotGap,
                                 stunned : Never..WaveCap, blinded : Never..WaveCap]]
    BY <1>5 DEF PlayerRecord
  <2>2. processed' \in 0..MaxShots
    BY <1>1, Numbers
  <2> QED  BY <1>1, <2>1, <2>2 DEF GInv, TypeOK
<1>7. CountsTyped'
  <2>1. Shot(p, age, 0) \in ShotRecord
    BY <1>2 DEF Shot, ShotRecord
  <2>2. work' \in Seq(ShotRecord)
    BY <1>1, <2>1
  <2>3. fired' \in [Player -> Nat] /\ loaders' \in [Player -> Nat]
    BY <1>1 DEF GInv, CountsTyped
  <2> QED  BY <2>2, <2>3 DEF CountsTyped
<1>8. Working' /\ Undecided' /\ RoundIsItsLine' /\ Recorded'
  <2>1. Working'
    BY <1>1, Numbers DEF Working
  <2>2. Undecided' /\ RoundIsItsLine'
    BY <1>1 DEF GInv, Undecided, RoundIsItsLine
  <2>3. Recorded'
    BY <1>1 DEF GInv, Recorded
  <2> QED  BY <2>1, <2>2, <2>3
<1>9. Scored' /\ EffectsExpire'
  BY <1>1, <1>4 DEF GInv, Scored, EffectsExpire
<1>10. AmmoIsAccounted'
  <2>1. SUFFICES ASSUME Ammo # 0, NEW q \in Player
                 PROVE  players'[q].ammo + fired'[q] <= Ammo * (1 + loaders[q])
    BY <1>1 DEF AmmoIsAccounted
  <2>2. players[q].ammo + fired[q] <= Ammo * (1 + loaders[q])
    BY <2>1 DEF GInv, AmmoIsAccounted
  <2>3. players[q].ammo \in Nat /\ fired[q] \in Nat
    BY PlayersTyped
  <2>4. players'[q].ammo + fired'[q] = players[q].ammo + fired[q]
    <3>1. CASE q = p
      <4>1. players'[q].ammo = players[q].ammo - 1
        BY <1>3, <1>4, <2>1, <3>1
      <4>2. fired'[q] = fired[q] + 1
        BY <1>1, <3>1 DEF GInv, CountsTyped
      <4> QED  BY <2>3, <4>1, <4>2
    <3>2. CASE q # p
      <4>1. players'[q].ammo = players[q].ammo /\ fired'[q] = fired[q]
        BY <1>1, <1>4, <3>2 DEF GInv, CountsTyped
      <4> QED  BY <4>1
    <3> QED  BY <3>1, <3>2
  <2> QED  BY <2>2, <2>4
<1> QED  BY <1>6, <1>7, <1>8, <1>9, <1>10 DEF GInv

\* The shots that are left, when one has been resolved.
LEMMA RemainingTyped ==
    ASSUME GInv, work # <<>>, NEW shots \in Seq(ShotRecord), Remaining(shots)
    PROVE  /\ work' \in Seq(ShotRecord) /\ processed' \in 0..MaxShots
           /\ work' # <<>> => phase' = "WaveActive" /\ processed' < MaxShots
<1>1. processed \in Nat /\ processed < MaxShots
  BY Numbers DEF GInv, TypeOK, Working
<1>2. /\ processed' = processed + 1
      /\ work' = IF phase' # "WaveActive" \/ processed' >= MaxShots THEN <<>> ELSE shots
  BY DEF Remaining
<1>3. processed' \in 0..MaxShots
  BY <1>1, <1>2, Numbers
<1>4. work' \in Seq(ShotRecord)
  <2>1. <<>> \in Seq(ShotRecord)
    OBVIOUS
  <2> QED  BY <1>2, <2>1
<1>5. work' # <<>> => phase' = "WaveActive" /\ processed' < MaxShots
  BY <1>2, <1>3, Numbers
<1> QED  BY <1>3, <1>4, <1>5

\* The shot to be resolved, and those behind it.
LEMMA HeadIsShot ==
    ASSUME GInv, work # <<>>
    PROVE  /\ Head(work) \in ShotRecord /\ Tail(work) \in Seq(ShotRecord)
           /\ phase = "WaveActive" /\ winner = None
<1>1. work \in Seq(ShotRecord)
  BY DEF GInv, CountsTyped
<1>2. Head(work) \in ShotRecord /\ Tail(work) \in Seq(ShotRecord)
  BY <1>1
<1> QED  BY <1>2 DEF GInv, Working, Undecided

\* A shot that hits nothing changes nothing.
LEMMA MissKeeps ==
    ASSUME GInv, work # <<>>, MissOrTaken,
           UNCHANGED <<ticked, round, wave, history, closes, fired>>
    PROVE  GInv'
<1>1. UNCHANGED <<phase, left, board, players, things, winner, loaders>>
  BY DEF MissOrTaken
<1>2. /\ work' \in Seq(ShotRecord) /\ processed' \in 0..MaxShots
      /\ work' # <<>> => phase' = "WaveActive" /\ processed' < MaxShots
  BY HeadIsShot, RemainingTyped DEF MissOrTaken
<1>3. TypeOK' /\ CountsTyped'
  BY <1>1, <1>2 DEF GInv, TypeOK, CountsTyped
<1>4. Working' /\ Undecided' /\ RoundIsItsLine'
  BY <1>1, <1>2 DEF GInv, Working, Undecided, RoundIsItsLine
<1>5. Scored' /\ AmmoIsAccounted' /\ EffectsExpire' /\ Recorded'
  BY <1>1 DEF GInv, Scored, AmmoIsAccounted, EffectsExpire, Recorded
<1> QED  BY <1>3, <1>4, <1>5 DEF GInv

\* A cell that is marked completes its player's line or makes none at all.
LEMMA CellHitKeeps ==
    ASSUME GInv, work # <<>>, NEW c \in Cell, CellHit(Head(work), c),
           UNCHANGED <<ticked, round, wave, history, closes, fired>>
    PROVE  GInv'
<1> DEFINE p == Head(work).who
<1>1. /\ Free(board, c) /\ board' = Claimed(board, c, p)
      /\ \/ CompletesLine(board', c, p) /\ EndRound(p)
         \/ /\ ~CompletesLine(board', c, p)
            /\ UNCHANGED <<phase, left, players, things, winner>>
      /\ Remaining(Tail(work)) /\ UNCHANGED loaders
  BY DEF CellHit
<1>2. p \in Player /\ phase = "WaveActive" /\ winner = None
  BY HeadIsShot DEF ShotRecord
<1> HIDE DEF p
<1>3. /\ work' \in Seq(ShotRecord) /\ processed' \in 0..MaxShots
      /\ work' # <<>> => phase' = "WaveActive" /\ processed' < MaxShots
  BY <1>1, HeadIsShot, RemainingTyped
<1>4. board \in Boards /\ board' \in Boards
  <2>1. board \in Boards
    BY DEF GInv, TypeOK
  <2> QED  BY <1>1, <1>2, <2>1 DEF Boards, Claimed
<1>5. \A q \in Player : ~HasLine(board, q)
  BY <1>2, Numbers DEF GInv, RoundIsItsLine
<1>6. \A q \in Player : q # p => ~HasLine(board', q)
  BY <1>1, <1>2, <1>4, <1>5, MarkIsOnesOwn
<1>7. CompletesLine(board', c, p) <=> HasLine(board', p)
  BY <1>1, <1>2, <1>4, <1>5, LastMarkDecidesLine
<1>8. CASE CompletesLine(board', c, p) /\ EndRound(p)
  <2>1. phase' # "WaveActive"
    BY <1>8 DEF EndRound
  <2>2. work' = <<>>
    BY <1>3, <2>1
  <2>3. /\ ticked' \in BOOLEAN /\ history' \in Seq(SUBSET Items)
        /\ Len(history') <= SnapshotCount
    BY DEF GInv, TypeOK
  <2>4. \A q \in Player : HasLine(board', q) <=> q = p
    BY <1>6, <1>7, <1>8
  <2> QED  BY <1>1, <1>2, <1>3, <1>4, <1>8, <2>2, <2>3, <2>4, EndRoundKeeps DEF ghostVars
<1>9. CASE /\ ~CompletesLine(board', c, p)
           /\ UNCHANGED <<phase, left, players, things, winner>>
  <2>1. TypeOK' /\ CountsTyped'
    BY <1>1, <1>3, <1>4, <1>9 DEF GInv, TypeOK, CountsTyped
  <2>2. Working' /\ Undecided'
    BY <1>3, <1>9 DEF GInv, Working, Undecided
  <2>3. RoundIsItsLine'
    BY <1>2, <1>6, <1>7, <1>9, Numbers DEF RoundIsItsLine
  <2>4. Scored' /\ AmmoIsAccounted' /\ EffectsExpire' /\ Recorded'
    BY <1>1, <1>9 DEF GInv, Scored, AmmoIsAccounted, EffectsExpire, Recorded
  <2> QED  BY <2>1, <2>2, <2>3, <2>4 DEF GInv
<1> QED  BY <1>1, <1>8, <1>9

\* What an item does to a player: a status of this wave or the next, or
\* ammunition for who shot a loader.
LEMMA StruckOf ==
    ASSUME GInv, NEW shot \in ShotRecord, NEW kind, players' \in Struck(kind, shot), NEW q \in Player
    PROVE  /\ players'[q] \in PlayerRecord /\ players'[q].score = players[q].score
           /\ \/ players'[q].stunned = players[q].stunned
              \/ players'[q].stunned >= wave
           /\ \/ players'[q].blinded = players[q].blinded
              \/ players'[q].blinded >= wave
           /\ players'[q].ammo = IF kind = "loader" /\ q = shot.who THEN Ammo ELSE players[q].ammo
<1>1. players \in [Player -> PlayerRecord] /\ players[q] \in PlayerRecord
  BY PlayersTyped
<1>2. wave \in Never..WaveCap /\ wave + 1 \in Never..WaveCap /\ wave \in Int
  BY Numbers DEF GInv, TypeOK, Never
<1>3. CASE kind = "pan"
  <2>1. PICK v \in Present : players' = [players EXCEPT ![v].stunned = wave]
    BY <1>3 DEF Struck
  <2>2. players'[q] = IF q = v THEN [players[q] EXCEPT !.stunned = wave] ELSE players[q]
    BY <1>1, <2>1
  <2>3. [players[q] EXCEPT !.stunned = wave] \in PlayerRecord
    BY <1>1, <1>2 DEF PlayerRecord
  <2> QED  BY <1>1, <1>2, <1>3, <2>2, <2>3 DEF PlayerRecord
<1>4. CASE kind = "paint"
  <2>1. PICK v \in Present : players' = [players EXCEPT ![v].blinded = wave + 1]
    BY <1>4 DEF Struck
  <2>2. players'[q] = IF q = v THEN [players[q] EXCEPT !.blinded = wave + 1] ELSE players[q]
    BY <1>1, <2>1
  <2>3. [players[q] EXCEPT !.blinded = wave + 1] \in PlayerRecord
    BY <1>1, <1>2 DEF PlayerRecord
  <2> QED  BY <1>1, <1>2, <1>4, <2>2, <2>3 DEF PlayerRecord
<1>5. CASE kind = "loader"
  <2>1. players' = [players EXCEPT ![shot.who].ammo = Ammo]
    BY <1>5 DEF Struck
  <2>2. players'[q] = IF q = shot.who THEN [players[q] EXCEPT !.ammo = Ammo] ELSE players[q]
    BY <1>1, <2>1
  <2>3. Ammo \in 0..Ammo
    BY Numbers
  <2>4. [players[q] EXCEPT !.ammo = Ammo] \in PlayerRecord
    BY <1>1, <2>3 DEF PlayerRecord
  <2> QED  BY <1>1, <1>5, <2>2, <2>4 DEF PlayerRecord
<1>6. CASE kind \notin {"pan", "paint", "loader"}
  <2>1. players' = players
    BY <1>6 DEF Struck
  <2> QED  BY <1>1, <1>6, <2>1
<1> QED  BY <1>3, <1>4, <1>5, <1>6

\* Fragments are shots of who hit the grenade.
LEMMA FragmentsAreShots ==
    ASSUME NEW shot \in ShotRecord
    PROVE  FragmentsOf(shot) \in Seq(ShotRecord)
<1>1. CASE shot.depth < MaxDepth
  <2>1. \A n \in 1..Fragments : Shot(shot.who, shot.age, shot.depth + 1) \in ShotRecord
    BY DEF ShotRecord, Shot
  <2>2. [n \in 1..Fragments |-> Shot(shot.who, shot.age, shot.depth + 1)] \in Seq(ShotRecord)
    BY <2>1, Numbers
  <2> QED  BY <1>1, <2>2 DEF FragmentsOf
<1>2. CASE ~(shot.depth < MaxDepth)
  BY <1>2 DEF FragmentsOf
<1> QED  BY <1>1, <1>2

\* A loader gives a player ammunition once more, and that is counted.
LEMMA OnceMore ==
    ASSUME NEW l \in Nat
    PROVE  Ammo * (1 + (l + 1)) = Ammo * (1 + l) + Ammo
BY Numbers

\* An item that is hit is gone; its effect and its fragments come of it.
LEMMA ItemHitKeeps ==
    ASSUME GInv, work # <<>>, NEW kind \in Items, ItemHit(Head(work), kind),
           UNCHANGED <<ticked, round, wave, history, closes, fired>>
    PROVE  GInv'
<1> DEFINE shot == Head(work)
           more == IF kind = "grenade" THEN FragmentsOf(shot) ELSE <<>>
<1>1. /\ players' \in Struck(kind, shot)
      /\ things' = [things EXCEPT ![kind] = "gone"]
      /\ loaders' = IF kind = "loader" THEN [loaders EXCEPT ![shot.who] = @ + 1] ELSE loaders
      /\ UNCHANGED <<phase, left, board, winner>>
      /\ Remaining(Tail(work) \o more)
  BY DEF ItemHit, Kill
<1>2. shot \in ShotRecord /\ Tail(work) \in Seq(ShotRecord)
  BY HeadIsShot
<1> HIDE DEF shot
<1>3. /\ work' \in Seq(ShotRecord) /\ processed' \in 0..MaxShots
      /\ work' # <<>> => phase' = "WaveActive" /\ processed' < MaxShots
  <2>1. more \in Seq(ShotRecord)
    BY <1>2, FragmentsAreShots
  <2> HIDE DEF more
  <2>2. Tail(work) \o more \in Seq(ShotRecord)
    BY <1>2, <2>1
  <2> QED  BY <1>1, <2>2, RemainingTyped
<1>4. ASSUME NEW q \in Player
      PROVE  /\ players'[q] \in PlayerRecord /\ players'[q].score = players[q].score
             /\ \/ players'[q].stunned = players[q].stunned
                \/ players'[q].stunned >= wave
             /\ \/ players'[q].blinded = players[q].blinded
                \/ players'[q].blinded >= wave
             /\ players'[q].ammo = IF kind = "loader" /\ q = shot.who THEN Ammo
                                   ELSE players[q].ammo
  BY <1>1, <1>2, StruckOf
<1>5. players' \in [Player -> PlayerRecord]
  <2>1. players \in [Player -> PlayerRecord]
    BY DEF GInv, TypeOK, PlayerRecord
  <2>2. players' = [q \in Player |-> players'[q]]
    BY <1>1, <1>2, <2>1 DEF Struck
  <2> QED  BY <1>4, <2>2
<1>6. /\ loaders' \in [Player -> Nat]
      /\ \A q \in Player : loaders'[q] = IF kind = "loader" /\ q = shot.who THEN loaders[q] + 1
                                         ELSE loaders[q]
  <2>1. loaders \in [Player -> Nat]
    BY DEF GInv, CountsTyped
  <2>2. CASE kind = "loader"
    <3>1. shot.who \in Player
      BY <1>2 DEF ShotRecord
    <3>2. loaders' = [loaders EXCEPT ![shot.who] = @ + 1]
      BY <1>1, <2>2
    <3> QED  BY <2>1, <2>2, <3>1, <3>2
  <2>3. CASE kind # "loader"
    BY <1>1, <2>1, <2>3
  <2> QED  BY <2>2, <2>3
<1>7. TypeOK'
  <2>1. players' \in [Player -> [present : BOOLEAN, ammo : 0..Ammo, score : 0..Rounds,
                                 cool : 0..ShotGap,
                                 stunned : Never..WaveCap, blinded : Never..WaveCap]]
    BY <1>5 DEF PlayerRecord
  <2>2. things' \in [Items -> {"absent", "waiting", "flying", "gone"}]
    BY <1>1 DEF GInv, TypeOK
  <2> QED  BY <1>1, <1>3, <2>1, <2>2 DEF GInv, TypeOK
<1>8. CountsTyped'
  BY <1>3, <1>6 DEF GInv, CountsTyped
<1>9. Working' /\ Undecided' /\ RoundIsItsLine' /\ Recorded'
  BY <1>1, <1>3 DEF GInv, Working, Undecided, RoundIsItsLine, Recorded
<1>10. Scored' /\ EffectsExpire'
  BY <1>1, <1>4 DEF GInv, Scored, EffectsExpire
<1>11. AmmoIsAccounted'
  <2>1. SUFFICES ASSUME Ammo # 0, NEW q \in Player
                 PROVE  players'[q].ammo + fired[q] <= Ammo * (1 + loaders'[q])
    BY DEF AmmoIsAccounted
  <2>2. players[q].ammo + fired[q] <= Ammo * (1 + loaders[q])
    BY <2>1 DEF GInv, AmmoIsAccounted
  <2>3. players[q].ammo \in Nat /\ fired[q] \in Nat /\ loaders[q] \in Nat
    BY PlayersTyped
  <2>4. CASE kind = "loader" /\ q = shot.who
    <3>1. players'[q].ammo = Ammo /\ loaders'[q] = loaders[q] + 1
      BY <1>4, <1>6, <2>4
    <3>2. Ammo * (1 + loaders'[q]) = Ammo * (1 + loaders[q]) + Ammo
      BY <2>3, <3>1, OnceMore
    <3> DEFINE given == Ammo * (1 + loaders[q])
    <3>3. given \in Nat /\ fired[q] <= given
      BY <2>2, <2>3, Numbers
    <3> HIDE DEF given
    <3>4. Ammo + fired[q] <= given + Ammo
      BY <2>3, <3>3, Numbers
    <3> QED  BY <3>1, <3>2, <3>4 DEF given
  <2>5. CASE ~(kind = "loader" /\ q = shot.who)
    <3>1. players'[q].ammo = players[q].ammo /\ loaders'[q] = loaders[q]
      BY <1>4, <1>6, <2>5
    <3> QED  BY <2>2, <3>1
  <2> QED  BY <2>4, <2>5
<1> QED  BY <1>7, <1>8, <1>9, <1>10, <1>11 DEF GInv
-----------------------------------------------------------------------------
(***************************************************************************)
(* The theorems                                                            *)
(***************************************************************************)

\* Before the match the board is empty, and nobody has anything.
LEMMA InitIsInv == Init => GInv
<1> SUFFICES ASSUME Init PROVE GInv
  OBVIOUS
<1>1. players \in [Player -> PlayerRecord]
  <2>1. Fresh \in PlayerRecord
    BY Numbers DEF Fresh, PlayerRecord, Never
  <2> QED  BY <2>1 DEF Init
<1>2. TypeOK
  <2>1. left \in 0..Max({WaveTicks, WavePause, RoundPause})
    BY Durations DEF Init
  <2>2. players \in [Player -> [present : BOOLEAN, ammo : 0..Ammo, score : 0..Rounds,
                                cool : 0..ShotGap,
                                stunned : Never..WaveCap, blinded : Never..WaveCap]]
    BY <1>1 DEF PlayerRecord
  <2>3. board \in Boards
    BY EmptyBoardIsOpen DEF Init
  <2>4. round \in 0..Rounds /\ wave \in 0 .. WaveCap - 1 /\ processed \in 0..MaxShots
    BY Numbers DEF Init
  <2>5. history \in Seq(SUBSET Items) /\ Len(history) <= SnapshotCount
    BY Numbers DEF Init
  <2> QED  BY <2>1, <2>2, <2>3, <2>4, <2>5 DEF Init, TypeOK, Phase
<1>3. CountsTyped
  BY DEF Init, CountsTyped
<1>4. Working /\ Undecided /\ Recorded /\ EffectsExpire
  BY DEF Init, Working, Undecided, Recorded, EffectsExpire
<1>5. Scored
  BY Numbers DEF Init, Scored, Fresh
<1>6. RoundIsItsLine
  BY EmptyBoardIsOpen, Numbers DEF Init, RoundIsItsLine
<1>7. AmmoIsAccounted
  <2>1. 0 + 0 <= Ammo * (1 + 0)
    BY Numbers
  <2> QED  BY <2>1 DEF Init, AmmoIsAccounted, Fresh
<1> QED  BY <1>2, <1>3, <1>4, <1>5, <1>6, <1>7 DEF GInv

\* The invariant holds in every state.
THEOREM GameInvariant == Spec => []GInv
<1>1. GInv /\ [Next]_vars => GInv'
  <2> SUFFICES ASSUME GInv, [Next]_vars PROVE GInv'
    OBVIOUS
  <2>1. CASE OnStart
    BY <2>1, OnStartKeeps
  <2>2. CASE OnTick
    BY <2>2, WaveTickKeeps, LastWaveTickKeeps, PauseTickKeeps, NextWaveTickKeeps,
       NextRoundTickKeeps, MatchOverTickKeeps DEF OnTick
  <2>3. CASE OnEnd
    BY <2>3, OnEndKeeps
  <2>4. CASE ResolveOne
    BY <2>4, MissKeeps, CellHitKeeps, ItemHitKeeps DEF ResolveOne
  <2>5. ASSUME NEW p \in Player, OnMemberLeft(p) PROVE GInv'
    BY <2>5, OnMemberLeftKeeps
  <2>6. ASSUME NEW p \in Player, NEW claimed \in -1 .. Rewind + 1, OnFire(p, claimed) PROVE GInv'
    BY <2>6, OnFireKeeps
  <2>7. CASE UNCHANGED vars
    <3> USE <2>7 DEF vars
    <3>1. TypeOK' /\ CountsTyped'
      BY DEF GInv, TypeOK, CountsTyped
    <3>2. Working' /\ Undecided' /\ RoundIsItsLine'
      BY DEF GInv, Working, Undecided, RoundIsItsLine
    <3>3. Scored' /\ AmmoIsAccounted' /\ EffectsExpire' /\ Recorded'
      BY DEF GInv, Scored, AmmoIsAccounted, EffectsExpire, Recorded
    <3> QED  BY <3>1, <3>2, <3>3 DEF GInv
  <2> QED  BY <2>1, <2>2, <2>3, <2>4, <2>5, <2>6, <2>7 DEF Next
<1> QED  BY <1>1, InitIsInv, PTL DEF Spec

\* The variables of the game have their types: a wave index below the cap, a score
\* no more than the rounds.
THEOREM TypeCorrect == Spec => []TypeOK
<1>1. GInv => TypeOK
  BY DEF GInv
<1> QED  BY <1>1, GameInvariant, PTL

\* A round is decided for exactly those who have a line (CompletesLine).
THEOREM RoundsAreTheirLines == Spec => []RoundIsItsLine
<1>1. GInv => RoundIsItsLine
  BY DEF GInv
<1> QED  BY <1>1, GameInvariant, PTL

\* Shots are paid for, however shots and items chain (OnFire, ApplyItemEffect).
THEOREM ShotsArePaidFor == Spec => []AmmoIsAccounted
<1>1. GInv => AmmoIsAccounted
  BY DEF GInv
<1> QED  BY <1>1, GameInvariant, PTL

\* The moments a shot may reach back to are recorded (World.h:138).
THEOREM MomentsAreKept == Spec => []RewindIsKept
<1>1. GInv => RewindIsKept
  <2> SUFFICES ASSUME GInv, phase = "WaveActive"
               PROVE  Len(history) >= Min({WaveTicks - left, Rewind + 1})
    BY DEF RewindIsKept
  <2> DEFINE gone == WaveTicks - left
  <2>1. gone \in Int /\ Rewind + 1 \in Int /\ Rewind + 1 <= SnapshotCount
    BY Numbers DEF GInv, Recorded
  <2>2. Len(history) = IF gone <= SnapshotCount THEN gone ELSE SnapshotCount
    BY DEF GInv, Recorded
  <2> HIDE DEF gone
  <2>3. Min({gone, Rewind + 1}) = IF gone <= Rewind + 1 THEN gone ELSE Rewind + 1
    BY <2>1, MinOfTwo
  <2>4. Len(history) >= Min({gone, Rewind + 1})
    BY <2>1, <2>2, <2>3, Numbers
  <2> QED  BY <2>4 DEF gone
<1> QED  BY <1>1, GameInvariant, PTL

\* A status is over with the wave it lasts through (BeginWave).
THEOREM StatusesEnd == Spec => []EffectsExpire
<1>1. GInv => EffectsExpire
  BY DEF GInv
<1> QED  BY <1>1, GameInvariant, PTL

\* The game is a game mode: started once, ended once, never played again, and
\* the instance asked to close at most once.  The safety of ModeSpec.
THEOREM ImplementsGameMode == Spec => Mode!Init /\ [][Mode!Next]_(Mode!vars)
<1>1. Init => Mode!Init
  BY DEF Init, Mode!Init
<1>2. GInv /\ [Next]_vars => [Mode!Next]_(Mode!vars)
  <2> SUFFICES ASSUME GInv, [Next]_vars PROVE [Mode!Next]_(Mode!vars)
    OBVIOUS
  <2> USE DEF Mode!Next, Mode!vars, Mode!Start, Mode!Complete, Mode!End
  <2>1. CASE OnStart
    BY <2>1 DEF OnStart, BeginRound, BeginWave
  <2>2. CASE WaveTick \/ PauseTick
    BY <2>2 DEF WaveTick, PauseTick
  <2>3. CASE LastWaveTick
    BY <2>3 DEF LastWaveTick, EndWave, EndRound
  <2>4. CASE NextWaveTick
    BY <2>4 DEF NextWaveTick, BeginWave
  <2>5. CASE NextRoundTick
    BY <2>5 DEF NextRoundTick, BeginRound, BeginWave
  <2>6. CASE MatchOverTick
    BY <2>6 DEF MatchOverTick, Finish
  <2>7. CASE OnEnd
    BY <2>7 DEF OnEnd
  <2>8. CASE ResolveOne
    <3>1. phase = "WaveActive" /\ closes' = closes
      BY <2>8, HeadIsShot DEF ResolveOne
    <3>2. phase' \in {"WaveActive", "RoundIntermission"}
      BY <2>8, <3>1 DEF ResolveOne, MissOrTaken, CellHit, ItemHit, EndRound
    <3> QED  BY <3>1, <3>2
  <2>9. ASSUME NEW p \in Player, OnMemberLeft(p) PROVE [Mode!Next]_(Mode!vars)
    BY <2>9 DEF OnMemberLeft, TooFew, Finish
  <2>10. ASSUME NEW p \in Player, NEW claimed \in -1 .. Rewind + 1, OnFire(p, claimed)
         PROVE  [Mode!Next]_(Mode!vars)
    BY <2>10 DEF OnFire
  <2>11. CASE UNCHANGED vars
    BY <2>11 DEF vars
  <2> QED  BY <2>1, <2>2, <2>3, <2>4, <2>5, <2>6, <2>7, <2>8, <2>9, <2>10, <2>11 DEF Next, OnTick
<1> QED  BY <1>1, <1>2, GameInvariant, PTL DEF Spec
=============================================================================
