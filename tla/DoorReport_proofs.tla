-------------------------- MODULE DoorReport_proofs --------------------------
(***************************************************************************)
(* Proofs about the door program from its start to its end, for every set  *)
(* of threads that report, every number of failures and every bound on     *)
(* what is under way: the types, and that a descriptor in use is open on   *)
(* what it is used for.                                                    *)
(***************************************************************************)
EXTENDS DoorReport, SequenceTheorems, WellFoundedInduction, TLAPS

\* Every descriptor that is kept is open on what it is kept for, and the lines
\* not yet exported still have the 0 of the C initialiser.
OwnInv ==
    /\ \A i \in 1 .. exported : fds[lineFd[Lines[i]]] = Lines[i]
    /\ \A i \in 1 .. Len(Lines) : i > exported => lineFd[Lines[i]] = 0
    /\ tty # -1 => fds[tty] = "tty"
    /\ sock # -1 => fds[sock] = "socket"

\* Which descriptors the start can count on being free: from the first export
\* on 0 is, and those above the ones it has had.
FreeInv ==
    /\ stage = "pins" /\ exported = 0 => fds = Standard
    /\ stage \in {"pins", "tty"} /\ exported > 0 => fds[0] = "closed"
    /\ stage \in {"pins", "tty", "udp"} =>
          \A n \in 0 .. MaxFd : n > 3 + exported => fds[n] = "closed"

\* What there is at each stage of main.
StageInv ==
    /\ stage \notin {"pins", "failed"} => exported = Len(Lines)
    /\ stage \in {"pins", "failed", "tty"} => tty = -1
    /\ stage \in {"pins", "failed", "tty", "udp"} => sock = -1
    /\ stage = "run" => tty # -1
    /\ "beat" \in alive => stage \in {"run", "stopping"}
    /\ "cmd" \in alive => stage \in {"beat", "run", "stopping", "closing"}

StartInv == StartTypeOK /\ OwnInv /\ FreeInv /\ StageInv

\* A thread in the middle of a report runs, and sends only if there is a socket.
ReportInv ==
    /\ \A t \in Reporters : pc[t] # "idle" => Runs(t)
    /\ \A t \in Reporters : pc[t] \in {"first", "door", "lock", "beat", "save"} => sock # -1

IInv == StartInv /\ TypeOK /\ ReportInv

-----------------------------------------------------------------------------
(* DoorStart: file descriptors.                                            *)

\* A set of numbers that is not empty has a least one.
LEMMA Least ==
    ASSUME NEW S \in SUBSET Nat, S # {}
    PROVE  \E n \in S : \A m \in S : n <= m
  <1> DEFINE R == OpToRel(<, Nat)
  <1>1. \A x, y \in Nat : y < x => <<y, x>> \in R
    BY DEF OpToRel
  <1>2. IsWellFoundedOn(R, Nat)
    BY NatLessThanWellFounded
  <1> HIDE DEF R
  <1>3. PICK n \in S : \A m \in S : ~ (<<m, n>> \in R)
    BY <1>2, WFMin
  <1>4. \A m \in S : m \in Nat /\ n \in Nat /\ ~ (m < n)
    BY <1>1, <1>3, Zenon
  <1>5. \A m \in S : n <= m
    BY <1>4
  <1> QED BY <1>5

\* A new descriptor is the lowest that is closed, if one is.
LEMMA LowestIsFree ==
    ASSUME NEW S, NEW f \in [0 .. MaxFd -> S], NEW k \in 0 .. MaxFd, f[k] = "closed"
    PROVE  /\ Lowest(f) \in 0 .. MaxFd /\ f[Lowest(f)] = "closed"
           /\ \A m \in 0 .. MaxFd : f[m] = "closed" => Lowest(f) <= m
  <1> DEFINE C == {n \in 0 .. MaxFd : f[n] = "closed"}
             Free(n) == n \in DOMAIN f /\ f[n] = "closed" /\ \A m \in 0 .. (n - 1) : f[m] # "closed"
  <1> USE StartAssumption
  <1>1. PICK n \in C : \A m \in C : n <= m
    <2>1. C \in SUBSET Nat /\ C # {}
      OBVIOUS
    <2> HIDE DEF C
    <2> QED BY <2>1, Least
  <1>2. Free(n)
    BY <1>1
  <1>3. Lowest(f) = CHOOSE j : Free(j)
    BY DEF Lowest
  <1>4. Free(Lowest(f))
    BY <1>2, <1>3
  <1> QED BY <1>4

\* The pins in the order of the start, each by another name.
Others == {"stdin", "std", "tty", "socket", "closed", "chip"}
LEMMA LinesFacts ==
    /\ Len(Lines) = 6
    /\ \A i \in 1 .. 6 : Lines[i] \in LineNames /\ Lines[i] \notin Others
    /\ \A i, j \in 1 .. 6 : Lines[i] = Lines[j] => i = j
    /\ \A l \in LineNames : l \notin Others
  <1>1. Len(Lines) = 6 /\ DOMAIN Lines = 1 .. 6
    BY DEF Lines
  <1>2. /\ Lines[1] = "TRIG" /\ Lines[2] = "ECHO" /\ Lines[3] = "IN1"
        /\ Lines[4] = "IN2" /\ Lines[5] = "IN3" /\ Lines[6] = "IN4"
    BY DEF Lines
  <1>3. \A i \in 1 .. 6 : i = 1 \/ i = 2 \/ i = 3 \/ i = 4 \/ i = 5 \/ i = 6
    OBVIOUS
  <1>4. \A i \in 1 .. 6 : Lines[i] \notin Others
    BY <1>2, <1>3 DEF Others
  <1>5. \A i \in 1 .. 6 : Lines[i] \in LineNames
    BY <1>1 DEF LineNames
  <1>6. \A l \in LineNames : l \notin Others
    BY <1>1, <1>4 DEF LineNames
  <1>7. \A i, j \in 1 .. 6 : Lines[i] = Lines[j] => i = j
    BY <1>2, <1>3
  <1> QED BY <1>1, <1>4, <1>5, <1>6, <1>7

-----------------------------------------------------------------------------
(* DoorStart: its steps.                                                   *)

Uses == LineNames \cup {"stdin", "std", "tty", "socket", "closed"}

LEMMA InitStartInv == StartInit => StartInv
  <1> SUFFICES ASSUME StartInit PROVE StartInv
    OBVIOUS
  <1> USE StartAssumption, LinesFacts DEF StartInit
  <1>1. fds \in [0 .. MaxFd -> Uses] /\ \A n \in 0 .. MaxFd : n > 3 => fds[n] = "closed"
    BY DEF Standard, Uses
  <1>2. lineFd \in [LineNames -> 0 .. MaxFd] /\ \A i \in 1 .. Len(Lines) : lineFd[Lines[i]] = 0
    OBVIOUS
  <1>3. StartTypeOK
    BY <1>1, <1>2 DEF StartTypeOK, Uses
  <1>4. OwnInv
    BY <1>2 DEF OwnInv
  <1>5. FreeInv
    BY <1>1 DEF FreeInv
  <1>6. StageInv
    BY DEF StageInv
  <1> QED BY <1>3, <1>4, <1>5, <1>6 DEF StartInv

\* The first export finds 3 free for the chip and 4 for its line; each later one
\* gets 0 for the chip, and a line's descriptor no higher than the exports before.
LEMMA ExportDescriptors ==
    ASSUME StartInv, ExportPin
    PROVE  \E chip, fd \in 0 .. MaxFd :
             /\ fds[chip] = "closed" /\ fds[fd] = "closed" /\ chip # fd /\ fd # 0
             /\ fd <= 4 + exported
             /\ lineFd' = [lineFd EXCEPT ![Lines[exported + 1]] = fd]
             /\ fds' \in [0 .. MaxFd -> Uses]
             /\ \A n \in 0 .. MaxFd : fds'[n] = IF n = 0 THEN "closed"
                                               ELSE IF n = fd THEN Lines[exported + 1] ELSE fds[n]
  <1> DEFINE line == Lines[exported + 1]
             chip == Lowest(fds)
             withChip == Opened(fds, "chip")
             fd == Lowest(withChip)
  <1> USE StartAssumption
  <1>1. /\ stage = "pins" /\ exported \in 0 .. 5 /\ fds \in [0 .. MaxFd -> Uses]
        /\ lineFd \in [LineNames -> 0 .. MaxFd]
        /\ lineFd[line] = 0 /\ line \in LineNames /\ line \in Uses
        /\ MaxFd \in Nat /\ MaxFd > 11
    <2>1. stage = "pins" /\ exported \in 0 .. 5
      BY LinesFacts DEF ExportPin, StartInv, StartTypeOK
    <2>2. exported + 1 \in 1 .. Len(Lines) /\ exported + 1 > exported
      BY <2>1, LinesFacts
    <2> QED BY <2>1, <2>2, LinesFacts DEF StartInv, StartTypeOK, OwnInv, Uses
  <1>2. /\ fds' = Stored(Closed(Opened(withChip, line), chip), line, fd)
        /\ lineFd' = [lineFd EXCEPT ![line] = fd]
    BY DEF ExportPin
  <1>3. \A n \in 0 .. MaxFd : n > 3 + exported => fds[n] = "closed"
    BY <1>1 DEF StartInv, FreeInv
  <1>4. /\ chip \in 0 .. MaxFd /\ fds[chip] = "closed"
        /\ \A m \in 0 .. MaxFd : fds[m] = "closed" => chip <= m
    <2>1. 9 \in 0 .. MaxFd /\ fds[9] = "closed"
      BY <1>1, <1>3
    <2> QED BY <1>1, <2>1, LowestIsFree
  <1>5. withChip = [fds EXCEPT ![chip] = "chip"]
    BY DEF Opened
  <1> HIDE DEF chip, withChip
  <1>6. withChip \in [0 .. MaxFd -> Uses \cup {"chip"}]
    BY <1>1, <1>4, <1>5
  <1>7. \A n \in 0 .. MaxFd : withChip[n] = IF n = chip THEN "chip" ELSE fds[n]
    BY <1>1, <1>4, <1>5
  <1>8. exported = 0 => fds[0] # "closed" /\ fds[3] = "closed"
    BY <1>1 DEF StartInv, FreeInv, Standard
  <1>9. exported > 0 => chip = 0
    <2>1. exported > 0 => fds[0] = "closed"
      BY <1>1 DEF StartInv, FreeInv
    <2> QED BY <1>1, <1>4, <2>1
  <1>10. 4 + exported \in 0 .. MaxFd /\ withChip[4 + exported] = "closed"
    <2>1. 4 + exported \in 0 .. MaxFd /\ 4 + exported > 3 + exported
      BY <1>1
    <2>2. 4 + exported # chip
      <3>1. CASE exported = 0
        <4>1. chip <= 3
          BY <1>1, <1>4, <1>8, <3>1
        <4> QED BY <1>4, <3>1, <4>1
      <3>2. CASE exported > 0
        BY <1>1, <1>9, <3>2
      <3> QED BY <1>1, <3>1, <3>2
    <2> QED BY <1>3, <1>7, <2>1, <2>2
  <1>11. fd \in 0 .. MaxFd /\ withChip[fd] = "closed" /\ fd <= 4 + exported
    BY <1>6, <1>10, LowestIsFree
  <1> HIDE DEF fd
  <1>12. fd # chip /\ fds[fd] = "closed"
    BY <1>7, <1>11
  <1>13. fd # 0
    BY <1>1, <1>8, <1>9, <1>12
  <1>14. Opened(withChip, line) = [withChip EXCEPT ![fd] = line]
    BY DEF Opened, fd
  <1> HIDE DEF line
  <1>15. fds' = [[[withChip EXCEPT ![fd] = line] EXCEPT ![chip] = "closed"] EXCEPT ![0] = "closed"]
    BY <1>1, <1>2, <1>14 DEF Stored, Closed
  <1>16. fds' \in [0 .. MaxFd -> Uses \cup {"chip"}]
    BY <1>1, <1>4, <1>6, <1>11, <1>15 DEF Uses
  <1>17. \A n \in 0 .. MaxFd : fds'[n] = IF n = 0 THEN "closed" ELSE IF n = fd THEN line ELSE fds[n]
    BY <1>1, <1>4, <1>6, <1>7, <1>11, <1>12, <1>15
  <1>18. fds' \in [0 .. MaxFd -> Uses]
    <2>1. \A n \in 0 .. MaxFd : fds'[n] \in Uses
      BY <1>1, <1>17 DEF Uses
    <2> QED BY <1>16, <2>1
  <1> QED BY <1>2, <1>4, <1>11, <1>12, <1>13, <1>17, <1>18 DEF line

LEMMA ExportStartInv ==
    ASSUME StartInv, ExportPin
    PROVE  StartInv'
  <1> DEFINE k == exported + 1
  <1> USE StartAssumption
  <1>1. PICK chip \in 0 .. MaxFd, fd \in 0 .. MaxFd :
             /\ fds[chip] = "closed" /\ fds[fd] = "closed" /\ chip # fd /\ fd # 0
             /\ fd <= 4 + exported
             /\ lineFd' = [lineFd EXCEPT ![Lines[k]] = fd]
             /\ fds' \in [0 .. MaxFd -> Uses]
             /\ \A n \in 0 .. MaxFd : fds'[n] = IF n = 0 THEN "closed"
                                               ELSE IF n = fd THEN Lines[k] ELSE fds[n]
    BY ExportDescriptors
  <1>2. /\ stage = "pins" /\ exported \in 0 .. 5 /\ exported' = k
        /\ UNCHANGED <<stage, tty, sock, alive, startFaults>>
        /\ lineFd \in [LineNames -> 0 .. MaxFd] /\ Len(Lines) = 6
        /\ tty = -1 /\ sock = -1
    BY LinesFacts DEF ExportPin, StartInv, StartTypeOK, StageInv
  <1>3. k \in 1 .. 6 /\ k > exported
    BY <1>2
  <1>4. \A i \in 1 .. 6 : lineFd'[Lines[i]] = IF i = k THEN fd ELSE lineFd[Lines[i]]
    BY <1>1, <1>2, <1>3, LinesFacts
  <1>5. StartTypeOK'
    <2>1. lineFd' \in [LineNames -> 0 .. MaxFd]
      BY <1>1, <1>2
    <2> QED BY <1>1, <1>2, <1>3, <2>1 DEF Uses, StartInv, StartTypeOK
  <1>6. OwnInv'
    <2>1. ASSUME NEW i \in 1 .. exported' PROVE fds'[lineFd'[Lines[i]]] = Lines[i]
      <3>1. i \in 1 .. 6 /\ (i = k \/ i \in 1 .. exported)
        BY <1>2, <1>3
      <3>2. CASE i = k
        BY <1>1, <1>4, <3>1, <3>2
      <3>3. CASE i \in 1 .. exported /\ i # k
        <4> DEFINE d == lineFd[Lines[i]]
        <4>1. d \in 0 .. MaxFd /\ lineFd'[Lines[i]] = d
          BY <1>2, <1>4, <3>1, <3>3, LinesFacts
        <4>2. fds[d] = Lines[i] /\ Lines[i] # "closed"
          BY <3>1, <3>3, LinesFacts DEF StartInv, OwnInv, Others
        <4>3. fds[0] = "closed"
          BY <1>2, <3>3 DEF StartInv, FreeInv
        <4> HIDE DEF d
        <4> QED BY <1>1, <4>1, <4>2, <4>3
      <3> QED BY <3>1, <3>2, <3>3
    <2>2. ASSUME NEW i \in 1 .. Len(Lines), i > exported' PROVE lineFd'[Lines[i]] = 0
      BY <1>2, <1>4, <2>2 DEF StartInv, OwnInv
    <2> QED BY <1>2, <2>1, <2>2 DEF OwnInv
  <1>7. FreeInv'
    <2>1. fds'[0] = "closed"
      BY <1>1
    <2>2. \A n \in 0 .. MaxFd : n > 3 + exported' => fds'[n] = "closed"
      BY <1>1, <1>2 DEF StartInv, FreeInv
    <2> QED BY <1>2, <1>3, <2>1, <2>2 DEF FreeInv
  <1>8. StageInv'
    BY <1>2 DEF StartInv, StageInv
  <1> QED BY <1>5, <1>6, <1>7, <1>8 DEF StartInv

LEMMA FaultsBound ==
    ASSUME StartTypeOK, Fails \/ Succeeds
    PROVE  startFaults' \in 0 .. MaxStartFaults
  <1>1. startFaults \in 0 .. MaxStartFaults /\ MaxStartFaults \in Nat
    BY StartAssumption DEF StartTypeOK
  <1>2. CASE Succeeds
    BY <1>1, <1>2 DEF Succeeds
  <1>3. CASE Fails
    BY <1>1, <1>3 DEF Fails
  <1> QED BY <1>2, <1>3

\* What a step to another stage may do, with the descriptors as they are.
LEMMA StageStartInv ==
    ASSUME StartInv, PinFails \/ PinsReady \/ NoSocket \/ StartListener \/ StartHeartbeat \/ StopListening
    PROVE  StartInv'
  <1> USE StartAssumption, LinesFacts
  <1>1. UNCHANGED <<exported, lineFd, fds, tty, sock>>
    BY DEF PinFails, PinsReady, NoSocket, StartListener, StartHeartbeat, StopListening
  <1>2. startFaults' \in 0 .. MaxStartFaults
    <2>1. Fails \/ Succeeds
      BY DEF PinFails, PinsReady, NoSocket, StartListener, StartHeartbeat, StopListening, Succeeds
    <2> QED BY <2>1, FaultsBound DEF StartInv
  <1>3. StageInv' /\ alive' \subseteq {"beat", "cmd"}
    BY <1>1 DEF PinFails, PinsReady, NoSocket, StartListener, StartHeartbeat, StopListening,
                StartInv, StartTypeOK, StageInv
  <1>4. /\ stage' \in {"failed", "tty", "beat", "run", "stopping", "closing"}
        /\ stage' = "tty" => stage = "pins" /\ exported = 6
    BY DEF PinFails, PinsReady, NoSocket, StartListener, StartHeartbeat, StopListening
  <1>5. StartTypeOK'
    BY <1>1, <1>2, <1>3, <1>4 DEF StartInv, StartTypeOK
  <1>6. OwnInv'
    BY <1>1 DEF StartInv, OwnInv
  <1>7. FreeInv'
    BY <1>1, <1>4 DEF StartInv, FreeInv
  <1> QED BY <1>3, <1>5, <1>6, <1>7 DEF StartInv

\* Opening one more descriptor, at the lowest number that is free.
LEMMA OpenStartInv ==
    ASSUME StartInv, OpenTty \/ OpenSocket
    PROVE  StartInv'
  <1> DEFINE low == Lowest(fds)
             what == IF stage = "tty" THEN "tty" ELSE "socket"
  <1> USE StartAssumption
  <1>1. /\ stage \in {"tty", "udp"} /\ exported = 6 /\ Len(Lines) = 6
        /\ stage' = IF stage = "tty" THEN "udp" ELSE "listen"
        /\ UNCHANGED <<exported, lineFd, alive>>
        /\ \/ stage = "tty" /\ UNCHANGED <<tty, sock, fds>> /\ Fails
           \/ stage = "tty" /\ tty' = low /\ UNCHANGED sock /\ fds' = Opened(fds, what) /\ Succeeds
           \/ stage = "udp" /\ sock' = low /\ UNCHANGED tty /\ fds' = Opened(fds, what) /\ Succeeds
    BY LinesFacts DEF OpenTty, OpenSocket, StartInv, StageInv
  <1>2. /\ fds \in [0 .. MaxFd -> Uses] /\ lineFd \in [LineNames -> 0 .. MaxFd]
        /\ what \in Uses /\ tty \in -1 .. MaxFd /\ sock \in -1 .. MaxFd
        /\ alive \subseteq {"beat", "cmd"} /\ MaxFd \in Nat /\ MaxFd > 11
    BY LinesFacts DEF StartInv, StartTypeOK, Uses
  <1>3. low \in 0 .. MaxFd /\ fds[low] = "closed" /\ (stage = "tty" => low = 0)
    <2>1. 10 \in 0 .. MaxFd /\ fds[10] = "closed"
      BY <1>1, <1>2 DEF StartInv, FreeInv
    <2>2. stage = "tty" => fds[0] = "closed" /\ 0 \in 0 .. MaxFd
      BY <1>1, <1>2 DEF StartInv, FreeInv
    <2>3. /\ low \in 0 .. MaxFd /\ fds[low] = "closed"
          /\ \A m \in 0 .. MaxFd : fds[m] = "closed" => low <= m
      BY <1>2, <2>1, LowestIsFree
    <2> HIDE DEF low
    <2> QED BY <2>2, <2>3
  <1>4. Opened(fds, what) = [fds EXCEPT ![low] = what]
    BY DEF Opened
  <1> HIDE DEF low
  <1>5. fds' = fds \/ fds' = [fds EXCEPT ![low] = what]
    BY <1>1, <1>4
  <1>6. fds' \in [0 .. MaxFd -> Uses] /\ \A n \in 0 .. MaxFd : fds[n] # "closed" => fds'[n] = fds[n]
    BY <1>2, <1>3, <1>5
  <1>7. StartTypeOK'
    <2>1. startFaults' \in 0 .. MaxStartFaults
      BY <1>1, FaultsBound DEF StartInv
    <2>2. tty' \in -1 .. MaxFd /\ sock' \in -1 .. MaxFd
      BY <1>1, <1>2, <1>3
    <2> QED BY <1>1, <1>2, <1>6, <2>1, <2>2 DEF Uses, StartInv, StartTypeOK
  <1>8. OwnInv'
    <2>1. \A i \in 1 .. exported' : fds'[lineFd'[Lines[i]]] = Lines[i]
      <3> TAKE i \in 1 .. exported'
      <3>1. i \in 1 .. exported /\ i \in 1 .. 6 /\ lineFd' = lineFd
        BY <1>1
      <3>2. lineFd[Lines[i]] \in 0 .. MaxFd /\ fds[lineFd[Lines[i]]] = Lines[i] /\ Lines[i] # "closed"
        BY <1>2, <3>1, LinesFacts DEF StartInv, OwnInv, Others
      <3> QED BY <1>6, <3>1, <3>2
    <2>2. \A i \in 1 .. Len(Lines) : i > exported' => lineFd'[Lines[i]] = 0
      BY <1>1 DEF StartInv, OwnInv
    <2>3. tty' # -1 => fds'[tty'] = "tty"
      <3>1. CASE tty' = tty
        <4>1. tty # -1 => tty \in 0 .. MaxFd /\ fds[tty] = "tty"
          BY <1>2 DEF StartInv, OwnInv
        <4> QED BY <1>6, <3>1, <4>1
      <3>2. CASE stage = "tty" /\ tty' = low /\ fds' = [fds EXCEPT ![low] = what]
        BY <1>2, <1>3, <3>2
      <3> QED BY <1>1, <1>4, <3>1, <3>2
    <2>4. sock' # -1 => fds'[sock'] = "socket"
      <3>1. CASE sock' = sock
        BY <1>1, <3>1 DEF StartInv, StageInv
      <3>2. CASE stage = "udp" /\ sock' = low /\ fds' = [fds EXCEPT ![low] = what]
        BY <1>2, <1>3, <3>2
      <3> QED BY <1>1, <1>4, <3>1, <3>2
    <2> QED BY <2>1, <2>2, <2>3, <2>4 DEF OwnInv
  <1>9. FreeInv'
    <2>1. stage' \in {"udp", "listen"} /\ (stage' = "udp" => stage = "tty")
      BY <1>1
    <2>2. stage = "tty" => \A n \in 0 .. MaxFd : n > 3 + exported => fds[n] = "closed" /\ n # low
      BY <1>1, <1>3 DEF StartInv, FreeInv
    <2>3. stage = "tty" => \A n \in 0 .. MaxFd : n > 3 + exported' => fds'[n] = "closed"
      BY <1>1, <1>2, <1>3, <1>5, <2>2
    <2> QED BY <2>1, <2>3 DEF FreeInv
  <1>10. StageInv'
    BY <1>1, <1>2, <1>3 DEF StartInv, StageInv
  <1> QED BY <1>7, <1>8, <1>9, <1>10 DEF StartInv

\* Closing the terminal or the socket leaves the other descriptors alone.
LEMMA CloseStartInv ==
    ASSUME StartInv, Quit \/ CloseSocket
    PROVE  StartInv'
  <1> DEFINE n == IF stage = "run" THEN tty ELSE sock
             what == IF stage = "run" THEN "tty" ELSE "socket"
  <1> USE StartAssumption
  <1>1. /\ stage \in {"run", "closing"} /\ stage' \in {"stopping", "done"}
        /\ stage = "run" => stage' = "stopping" /\ tty' = -1 /\ sock' = sock
        /\ stage = "closing" => stage' = "done" /\ sock' = -1 /\ tty' = tty
        /\ stage = "closing" => "cmd" \notin alive
        /\ fds' = fds \/ (fds' = [fds EXCEPT ![n] = "closed"] /\ n # -1)
        /\ n # -1 => fds' = [fds EXCEPT ![n] = "closed"]
        /\ UNCHANGED <<exported, lineFd, alive, startFaults>>
    BY DEF Quit, CloseSocket, Closed, StartInv, StageInv
  <1>2. /\ fds \in [0 .. MaxFd -> Uses] /\ lineFd \in [LineNames -> 0 .. MaxFd]
        /\ tty \in -1 .. MaxFd /\ sock \in -1 .. MaxFd
        /\ exported \in 0 .. 6 /\ Len(Lines) = 6 /\ MaxFd \in Nat
    BY LinesFacts DEF StartInv, StartTypeOK, Uses
  <1>3. n # -1 => n \in 0 .. MaxFd /\ fds[n] = what
    BY <1>2 DEF StartInv, OwnInv
  <1>4. /\ fds' \in [0 .. MaxFd -> Uses]
        /\ \A m \in 0 .. MaxFd : fds[m] # what => fds'[m] = fds[m]
    <2> HIDE DEF n, what
    <2>1. "closed" \in Uses
      BY DEF Uses
    <2> QED BY <1>1, <1>2, <1>3, <2>1
  <1>5. StartTypeOK'
    BY <1>1, <1>2, <1>4 DEF Uses, StartInv, StartTypeOK
  <1>6. OwnInv'
    <2>1. \A i \in 1 .. exported' : fds'[lineFd'[Lines[i]]] = Lines[i]
      <3> TAKE i \in 1 .. exported'
      <3>1. i \in 1 .. exported /\ i \in 1 .. 6 /\ lineFd' = lineFd
        BY <1>1, <1>2
      <3>2. lineFd[Lines[i]] \in 0 .. MaxFd /\ fds[lineFd[Lines[i]]] = Lines[i] /\ Lines[i] # what
        BY <1>2, <3>1, LinesFacts DEF StartInv, OwnInv, Others
      <3> QED BY <1>4, <3>1, <3>2
    <2>2. \A i \in 1 .. Len(Lines) : i > exported' => lineFd'[Lines[i]] = 0
      BY <1>1 DEF StartInv, OwnInv
    <2>3. tty' # -1 => fds'[tty'] = "tty"
      <3>1. tty' # -1 => tty' = tty /\ what = "socket" /\ tty \in 0 .. MaxFd /\ fds[tty] = "tty"
        BY <1>1, <1>2 DEF StartInv, OwnInv
      <3> HIDE DEF what, n
      <3> QED BY <1>4, <3>1
    <2>4. sock' # -1 => fds'[sock'] = "socket"
      <3>1. sock' # -1 => sock' = sock /\ what = "tty" /\ sock \in 0 .. MaxFd /\ fds[sock] = "socket"
        BY <1>1, <1>2 DEF StartInv, OwnInv
      <3> HIDE DEF what, n
      <3> QED BY <1>4, <3>1
    <2> QED BY <2>1, <2>2, <2>3, <2>4 DEF OwnInv
  <1>7. FreeInv'
    BY <1>1 DEF FreeInv
  <1>8. StageInv'
    BY <1>1 DEF StartInv, StageInv
  <1> QED BY <1>5, <1>6, <1>7, <1>8 DEF StartInv

\* A thread that ends takes nothing with it.
LEMMA LeaveStartInv ==
    ASSUME StartInv, NEW t, Leave(t)
    PROVE  StartInv' /\ alive' \subseteq alive /\ UNCHANGED <<stage, tty, sock>>
  <1>1. /\ UNCHANGED <<stage, exported, lineFd, fds, tty, sock, startFaults>>
        /\ alive' \subseteq alive
    BY DEF Leave
  <1>2. StartTypeOK' /\ StageInv'
    BY <1>1 DEF StartInv, StartTypeOK, StageInv
  <1>3. OwnInv' /\ FreeInv'
    BY <1>1 DEF StartInv, OwnInv, FreeInv
  <1> QED BY <1>1, <1>2, <1>3 DEF StartInv

LEMMA SameStartInv ==
    ASSUME StartInv, UNCHANGED program
    PROVE  StartInv'
  BY DEF program, StartInv, StartTypeOK, OwnInv, FreeInv, StageInv

-----------------------------------------------------------------------------
(* DoorReport: the types, in parts.                                        *)

Places == {"idle", "bolt", "first", "door", "lock", "beat", "save"}
Sends == {"first", "door", "lock", "beat", "save"}
EventMsgs == [what : {"DOOR", "LOCK", "HELLO"}, state : BOOLEAN]
BeatMsgs == [open : BOOLEAN, locked : BOOLEAN]

DoorTypes == open \in BOOLEAN /\ locked \in BOOLEAN /\ changes \in 0 .. MaxChanges
ThreadTypes ==
    /\ pc \in [Reporters -> Places]
    /\ distance \in [Reporters -> {"none", "open", "closed", "error"}]
    /\ sawLocked \in [Reporters -> BOOLEAN]
    /\ errors \in 0 .. MaxErrors
ClockTypes ==
    /\ prev \in [valid : BOOLEAN, open : BOOLEAN, locked : BOOLEAN]
    /\ due \in BOOLEAN /\ dueAt \in [Reporters -> BOOLEAN]
WireTypes ==
    /\ notif \in Seq(EventMsgs) /\ Len(notif) <= MaxQueue
    /\ beats \in Seq(BeatMsgs) /\ Len(beats) <= MaxQueue

LEMMA Parts ==
    TypeOK <=> StartTypeOK /\ DoorTypes /\ ThreadTypes /\ ClockTypes /\ WireTypes /\ view \in Bits
  BY Zenon DEF TypeOK, DoorTypes, ThreadTypes, ClockTypes, WireTypes, Places, EventMsgs, BeatMsgs

LEMMA PartsNext ==
    ASSUME StartInv', ReportInv', DoorTypes', ThreadTypes', ClockTypes', WireTypes', (view \in Bits)'
    PROVE  IInv'
  <1>1. StartTypeOK'
    BY DEF StartInv
  <1>2. TypeOK'
    BY <1>1, Zenon DEF TypeOK, DoorTypes, ThreadTypes, ClockTypes, WireTypes, Places, EventMsgs, BeatMsgs
  <1> QED BY <1>2, Zenon DEF IInv

\* A part stays as it is with its variables.
LEMMA DoorSame == DoorTypes /\ UNCHANGED door => DoorTypes'
  BY DEF DoorTypes, door
LEMMA ThreadSame == ThreadTypes /\ UNCHANGED <<pc, local>> => ThreadTypes'
  BY DEF ThreadTypes, local
LEMMA ClockSame == ClockTypes /\ UNCHANGED <<prev, due, dueAt>> => ClockTypes'
  BY DEF ClockTypes
LEMMA WireSame == WireTypes /\ UNCHANGED channels => WireTypes'
  BY DEF WireTypes, channels
LEMMA ReportSame == ReportInv /\ UNCHANGED <<program, pc>> => ReportInv'
  BY DEF ReportInv, Runs, program

LEMMA InitIInv == Init => IInv
  <1> SUFFICES ASSUME Init PROVE IInv
    OBVIOUS
  <1> USE BoundsAssumption DEF Init
  <1>1. StartInv /\ StartTypeOK
    BY InitStartInv DEF StartInv
  <1>2. DoorTypes
    <2>1. open \in BOOLEAN /\ locked \in BOOLEAN
      BY Zenon
    <2>2. changes \in 0 .. MaxChanges
      OBVIOUS
    <2> QED BY <2>1, <2>2, Zenon DEF DoorTypes
  <1>3. ThreadTypes
    BY DEF ThreadTypes, Places
  <1>4. ClockTypes
    BY DEF ClockTypes
  <1>5. WireTypes
    BY EmptySeq DEF WireTypes
  <1>6. view \in Bits
    BY DEF Unheard, Bits
  <1>7. ReportInv
    BY DEF ReportInv
  <1> QED BY <1>1, <1>2, <1>3, <1>4, <1>5, <1>6, <1>7, Parts DEF IInv

\* A datagram that is sent waits in its channel, or is lost.
LEMMA SentFacts ==
    ASSUME NEW T, NEW c \in Seq(T), Len(c) <= MaxQueue, NEW m \in T, NEW d \in Sent(c, m)
    PROVE  d \in Seq(T) /\ Len(d) <= MaxQueue
  <1>1. Len(c) \in Nat /\ MaxQueue \in Nat
    BY LenProperties, BoundsAssumption
  <1>2. d = c \/ (d = Append(c, m) /\ Len(c) < MaxQueue)
    BY DEF Sent
  <1>3. Append(c, m) \in Seq(T) /\ Len(Append(c, m)) = Len(c) + 1
    BY AppendProperties
  <1> QED BY <1>1, <1>2, <1>3

\* A datagram that is taken leaves the others.
LEMMA TakenFacts ==
    ASSUME NEW T, NEW c \in Seq(T), Len(c) <= MaxQueue, c # <<>>
    PROVE  Head(c) \in T /\ Tail(c) \in Seq(T) /\ Len(Tail(c)) <= MaxQueue
  <1>1. Len(c) \in Nat /\ MaxQueue \in Nat
    BY LenProperties, BoundsAssumption
  <1>2. Head(c) \in T /\ Tail(c) \in Seq(T) /\ Len(Tail(c)) = Len(c) - 1
    BY HeadTailProperties
  <1> QED BY <1>1, <1>2

-----------------------------------------------------------------------------
(* DoorReport: who is in a report.                                         *)

\* A thread goes on in its report; to send it needs a socket.
LEMMA GotoReport ==
    ASSUME ReportInv, pc \in [Reporters -> Places], NEW t \in Reporters, Runs(t),
           NEW where \in Places, Goto(t, where), where \in Sends => sock # -1,
           UNCHANGED program
    PROVE  ReportInv' /\ pc' \in [Reporters -> Places]
  <1>1. pc' = [pc EXCEPT ![t] = where]
    BY DEF Goto
  <1>2. pc' \in [Reporters -> Places] /\ \A u \in Reporters : pc'[u] = IF u = t THEN where ELSE pc[u]
    BY <1>1
  <1>3. UNCHANGED <<alive, stage, tty, sock>>
    BY DEF program
  <1>4. \A u \in Reporters : pc'[u] # "idle" => Runs(u)'
    BY <1>2, <1>3 DEF ReportInv, Runs
  <1>5. \A u \in Reporters : pc'[u] \in Sends => sock' # -1
    BY <1>2, <1>3 DEF ReportInv, Sends
  <1> QED BY <1>2, <1>4, <1>5 DEF ReportInv, Sends

\* A thread is idle, and may end.
LEMMA LeaveReport ==
    ASSUME ReportInv, NEW t \in Reporters, Leave(t),
           \A u \in Reporters : pc'[u] = IF u = t THEN "idle" ELSE pc[u]
    PROVE  ReportInv'
  <1>1. /\ UNCHANGED <<stage, tty, sock>>
        /\ \A u : u # t => (u \in alive <=> u \in alive')
    BY DEF Leave
  <1>2. \A u \in Reporters : pc'[u] # "idle" => Runs(u)'
    BY <1>1 DEF ReportInv, Runs
  <1>3. \A u \in Reporters : pc'[u] \in {"first", "door", "lock", "beat", "save"} => sock' # -1
    BY <1>1 DEF ReportInv
  <1> QED BY <1>2, <1>3 DEF ReportInv

LEMMA ReturnFacts ==
    ASSUME StartInv, ReportInv, ThreadTypes, NEW t \in Reporters, Return(t)
    PROVE  StartInv' /\ ReportInv' /\ ThreadTypes'
  <1>1. Leave(t) /\ pc' = [pc EXCEPT ![t] = "idle"]
    BY DEF Return, Goto
  <1>2. StartInv'
    BY <1>1, LeaveStartInv
  <1>3. pc' \in [Reporters -> Places] /\ \A u \in Reporters : pc'[u] = IF u = t THEN "idle" ELSE pc[u]
    BY <1>1 DEF ThreadTypes, Places
  <1>4. ReportInv'
    BY <1>1, <1>3, LeaveReport
  <1>5. ThreadTypes'
    BY <1>3 DEF Return, ThreadTypes
  <1> QED BY <1>2, <1>4, <1>5

\* Outside its loop main reports nothing itself, and takes no thread's socket.
LEMMA MainReport ==
    ASSUME ReportInv, stage # "run", alive \subseteq alive', UNCHANGED pc,
           \A u \in Reporters : pc[u] # "idle" => sock' = sock
    PROVE  ReportInv'
  <1>1. \A u \in Reporters : pc'[u] # "idle" => u \in alive'
    BY DEF ReportInv, Runs
  <1>2. \A u \in Reporters : pc'[u] \in {"first", "door", "lock", "beat", "save"} => sock' # -1
    BY DEF ReportInv
  <1> QED BY <1>1, <1>2 DEF ReportInv, Runs

-----------------------------------------------------------------------------
(* DoorReport: its steps.                                                  *)

LEMMA EnvironmentStep == IInv /\ (MoveLeaf \/ MoveBolt \/ PeriodPasses) => IInv'
  <1> SUFFICES ASSUME IInv, MoveLeaf \/ MoveBolt \/ PeriodPasses PROVE IInv'
    OBVIOUS
  <1>1. /\ StartInv /\ ReportInv /\ DoorTypes /\ ThreadTypes /\ ClockTypes /\ WireTypes
        /\ view \in Bits
    BY Parts DEF IInv
  <1>2. UNCHANGED <<program, pc, local, channels, view, prev, dueAt>>
    BY DEF MoveLeaf, MoveBolt, PeriodPasses
  <1>3. DoorTypes'
    <2>1. MoveLeaf => open' \in BOOLEAN /\ locked' = locked
      BY Zenon DEF MoveLeaf
    <2>2. MoveBolt => locked' \in BOOLEAN /\ open' = open
      BY Zenon DEF MoveBolt
    <2>3. PeriodPasses => UNCHANGED door
      BY DEF PeriodPasses
    <2>4. open' \in BOOLEAN /\ locked' \in BOOLEAN
      BY <1>1, <2>1, <2>2, <2>3, Zenon DEF DoorTypes, door
    <2>5. changes' \in 0 .. MaxChanges
      <3>1. changes \in 0 .. MaxChanges /\ MaxChanges \in Nat
        BY <1>1, BoundsAssumption DEF DoorTypes
      <3>2. changes' = changes \/ (changes < MaxChanges /\ changes' = changes + 1)
        BY DEF MoveLeaf, MoveBolt, PeriodPasses, door
      <3> QED BY <3>1, <3>2
    <2> QED BY <2>4, <2>5, Zenon DEF DoorTypes
  <1>4. ClockTypes'
    <2>1. due' \in BOOLEAN
      BY <1>1, Zenon DEF MoveLeaf, MoveBolt, PeriodPasses, ClockTypes
    <2> QED BY <1>1, <1>2, <2>1, Zenon DEF ClockTypes
  <1>5. StartInv' /\ ReportInv' /\ ThreadTypes' /\ WireTypes' /\ view' \in Bits
    BY <1>1, <1>2, SameStartInv, ReportSame, ThreadSame, WireSame, Zenon DEF program
  <1> QED BY <1>3, <1>4, <1>5, PartsNext

\* From here on nothing is followed.
LEMMA UnfollowedTypes ==
    ASSUME DoorTypes, ThreadTypes, ClockTypes, Unfollowed
    PROVE  DoorTypes' /\ ThreadTypes' /\ ClockTypes' /\ WireTypes' /\ view' \in Bits
  <1>1. DoorTypes' /\ ThreadTypes'
    BY DoorSame, ThreadSame DEF Unfollowed
  <1>2. ClockTypes'
    BY DEF Unfollowed, ClockTypes
  <1>3. WireTypes'
    BY EmptySeq, BoundsAssumption DEF Unfollowed, WireTypes
  <1>4. view' \in Bits
    BY DEF Unfollowed, Unheard, Bits
  <1> QED BY <1>1, <1>2, <1>3, <1>4

LEMMA MainStep == IInv /\ Main => IInv'
  <1> SUFFICES ASSUME IInv, Main PROVE IInv'
    OBVIOUS
  <1>1. /\ StartInv /\ ReportInv /\ DoorTypes /\ ThreadTypes /\ ClockTypes /\ WireTypes
        /\ view \in Bits
    BY Parts DEF IInv
  <1>2. CASE /\ ExportPin \/ PinFails \/ PinsReady \/ OpenTty \/ NoSocket \/ StartListener
                \/ StopListening
             /\ UNCHANGED <<prev, notif>> /\ Elsewhere
    <2>1. StartInv'
      BY <1>1, <1>2, ExportStartInv, StageStartInv, OpenStartInv
    <2>2. stage # "run" /\ alive \subseteq alive' /\ sock' = sock
      BY <1>2 DEF ExportPin, PinFails, PinsReady, OpenTty, NoSocket, StartListener, StopListening
    <2>3. ReportInv'
      BY <1>1, <1>2, <2>2, MainReport DEF Elsewhere
    <2>4. DoorTypes' /\ ThreadTypes' /\ ClockTypes' /\ WireTypes' /\ view' \in Bits
      BY <1>1, <1>2, DoorSame, ThreadSame, ClockSame, WireSame DEF Elsewhere, channels
    <2> QED BY <2>1, <2>3, <2>4, PartsNext
  <1>3. CASE StartSocket
    <2>1. StartInv'
      BY <1>1, <1>3, OpenStartInv DEF StartSocket
    <2>2. stage = "udp" /\ alive' = alive
      BY <1>3 DEF StartSocket, OpenSocket
    <2>3. alive = {}
      BY <1>1, <2>2 DEF StartInv, StartTypeOK, StageInv
    <2>4. \A u \in Reporters : pc[u] = "idle"
      BY <1>1, <2>2, <2>3 DEF ReportInv, Runs
    <2>5. ReportInv'
      BY <1>1, <1>3, <2>2, <2>4, MainReport DEF StartSocket, Elsewhere
    <2>6. DoorTypes' /\ ThreadTypes' /\ ClockTypes' /\ view' \in Bits
      BY <1>1, <1>3, DoorSame, ThreadSame, ClockSame DEF StartSocket, Elsewhere
    <2>7. WireTypes'
      <3>1. Event("HELLO", FALSE) \in EventMsgs
        BY DEF Event, EventMsgs
      <3>2. notif' \in Sent(notif, Event("HELLO", FALSE)) /\ beats' = beats
        BY <1>3 DEF StartSocket, Elsewhere
      <3>3. notif' \in Seq(EventMsgs) /\ Len(notif') <= MaxQueue
        BY <1>1, <3>1, <3>2, SentFacts DEF WireTypes
      <3> QED BY <1>1, <3>2, <3>3 DEF WireTypes
    <2> QED BY <2>1, <2>5, <2>6, <2>7, PartsNext
  <1>4. CASE StartBeat
    <2>1. StartInv'
      BY <1>1, <1>4, StageStartInv DEF StartBeat
    <2>2. stage # "run" /\ alive \subseteq alive' /\ sock' = sock /\ UNCHANGED pc
      BY <1>4 DEF StartBeat, StartHeartbeat, Unfollowed, Elsewhere
    <2>3. ReportInv'
      BY <1>1, <2>2, MainReport
    <2>4. CASE Unfollowed
      BY <1>1, <2>1, <2>3, <2>4, UnfollowedTypes, PartsNext
    <2>5. CASE UNCHANGED <<prev, notif>> /\ Elsewhere
      <3>1. DoorTypes' /\ ThreadTypes' /\ ClockTypes' /\ WireTypes' /\ view' \in Bits
        BY <1>1, <2>5, DoorSame, ThreadSame, ClockSame, WireSame DEF Elsewhere, channels
      <3> QED BY <2>1, <2>3, <3>1, PartsNext
    <2> QED BY <1>4, <2>4, <2>5 DEF StartBeat
  <1>5. CASE QuitIdle
    <2>1. StartInv'
      BY <1>1, <1>5, CloseStartInv DEF QuitIdle
    <2>2. /\ \A u \in Reporters : pc[u] # "idle" => u \in {"beat", "cmd"}
          /\ UNCHANGED <<pc, alive, sock>>
      BY <1>5 DEF QuitIdle, Quit, Unfollowed
    <2>3. ReportInv'
      BY <1>1, <2>2 DEF ReportInv, Runs
    <2> QED BY <1>1, <1>5, <2>1, <2>3, UnfollowedTypes, PartsNext DEF QuitIdle
  <1>6. CASE StopSocket
    <2>1. StartInv'
      BY <1>1, <1>6, CloseStartInv DEF StopSocket
    <2>2. stage = "closing" /\ "cmd" \notin alive /\ alive' = alive
      BY <1>6 DEF StopSocket, CloseSocket
    <2>3. alive = {}
      BY <1>1, <2>2 DEF StartInv, StartTypeOK, StageInv
    <2>4. \A u \in Reporters : pc[u] = "idle"
      BY <1>1, <2>2, <2>3 DEF ReportInv, Runs
    <2>5. ReportInv'
      BY <1>1, <1>6, <2>2, <2>4, MainReport DEF StopSocket, Elsewhere
    <2>6. DoorTypes' /\ ThreadTypes' /\ WireTypes' /\ view' \in Bits
      BY <1>1, <1>6, DoorSame, ThreadSame, WireSame DEF StopSocket, Elsewhere, channels
    <2>7. ClockTypes'
      BY <1>1, <1>6 DEF ClockTypes, StopSocket, Elsewhere
    <2> QED BY <2>1, <2>5, <2>6, <2>7, PartsNext
  <1> QED BY <1>2, <1>3, <1>4, <1>5, <1>6 DEF Main

LEMMA ReadStep ==
    ASSUME IInv, NEW t \in Reporters, ReadDistance(t) \/ ReadWrong(t) \/ LeaveIdle(t)
    PROVE  IInv'
  <1>1. /\ StartInv /\ ReportInv /\ DoorTypes /\ ThreadTypes /\ ClockTypes /\ WireTypes
        /\ view \in Bits
    BY Parts DEF IInv
  <1>2. /\ UNCHANGED <<door, prev, due, dueAt, channels, view, sawLocked>>
        /\ pc[t] = "idle"
    BY DEF ReadDistance, ReadWrong, LeaveIdle, local
  <1>3. DoorTypes' /\ ClockTypes' /\ WireTypes' /\ view' \in Bits
    BY <1>1, <1>2, DoorSame, ClockSame, WireSame
  <1>4. errors' \in 0 .. MaxErrors
    <2>1. errors \in 0 .. MaxErrors /\ MaxErrors \in Nat
      BY <1>1, BoundsAssumption DEF ThreadTypes
    <2>2. errors' = errors \/ (errors < MaxErrors /\ errors' = errors + 1)
      BY DEF ReadDistance, ReadWrong, LeaveIdle, local
    <2> QED BY <2>1, <2>2
  <1>5. CASE /\ Runs(t) /\ Goto(t, "bolt") /\ UNCHANGED program
             /\ \E d \in {"open", "closed", "error"} : distance' = [distance EXCEPT ![t] = d]
    <2>1. "bolt" \in Places /\ "bolt" \notin Sends /\ pc \in [Reporters -> Places]
      BY <1>1 DEF Places, Sends, ThreadTypes
    <2>2. ReportInv' /\ pc' \in [Reporters -> Places]
      BY <1>1, <1>5, <2>1, GotoReport
    <2>3. distance' \in [Reporters -> {"none", "open", "closed", "error"}]
      BY <1>1, <1>5 DEF ThreadTypes
    <2>4. ThreadTypes'
      BY <1>1, <1>2, <1>4, <2>2, <2>3 DEF ThreadTypes
    <2>5. StartInv'
      BY <1>1, <1>5, SameStartInv
    <2> QED BY <1>3, <2>2, <2>4, <2>5, PartsNext
  <1>6. CASE Leave(t) /\ UNCHANGED <<distance, pc>>
    <2>1. StartInv'
      BY <1>1, <1>6, LeaveStartInv
    <2>2. ReportInv'
      BY <1>1, <1>2, <1>6, LeaveReport
    <2>3. ThreadTypes'
      BY <1>1, <1>2, <1>4, <1>6 DEF ThreadTypes
    <2> QED BY <1>3, <2>1, <2>2, <2>3, PartsNext
  <1>7. CASE ReadDistance(t)
    <2>1. Leaf \in {"open", "closed", "error"}
      BY DEF Leaf
    <2> QED BY <1>5, <1>7, <2>1 DEF ReadDistance
  <1>8. CASE ReadWrong(t)
    BY <1>5, <1>6, <1>8 DEF ReadWrong
  <1>9. CASE LeaveIdle(t)
    BY <1>6, <1>9 DEF LeaveIdle, local
  <1> QED BY <1>7, <1>8, <1>9

LEMMA ReadBoltStep ==
    ASSUME IInv, NEW t \in Reporters, ReadBolt(t)
    PROVE  IInv'
  <1>1. /\ StartInv /\ ReportInv /\ DoorTypes /\ ThreadTypes /\ ClockTypes /\ WireTypes
        /\ view \in Bits
    BY Parts DEF IInv
  <1>2. DoorTypes' /\ WireTypes' /\ view' \in Bits
    BY <1>1, DoorSame, WireSame DEF ReadBolt
  <1>3. CASE sock = -1 /\ Return(t) /\ UNCHANGED dueAt
    <2>1. StartInv' /\ ReportInv' /\ ThreadTypes'
      BY <1>1, <1>3, ReturnFacts
    <2>2. ClockTypes'
      BY <1>1, <1>3, ClockSame DEF ReadBolt
    <2> QED BY <1>2, <2>1, <2>2, PartsNext
  <1>4. CASE /\ sock # -1
             /\ sawLocked' = [sawLocked EXCEPT ![t] = locked]
             /\ dueAt' = [dueAt EXCEPT ![t] = due]
             /\ Goto(t, IF prev.valid THEN "door" ELSE "first")
             /\ UNCHANGED <<program, distance, errors>>
    <2>1. Runs(t) /\ pc \in [Reporters -> Places]
      BY <1>1 DEF ReadBolt, ReportInv, ThreadTypes
    <2>2. PICK where \in {"door", "first"} : Goto(t, where)
      BY <1>4
    <2>3. where \in Places
      BY DEF Places
    <2>4. StartInv' /\ ReportInv' /\ pc' \in [Reporters -> Places]
      BY <1>1, <1>4, <2>1, <2>2, <2>3, SameStartInv, GotoReport
    <2>5. ThreadTypes'
      <3>1. sawLocked' \in [Reporters -> BOOLEAN]
        BY <1>1, <1>4, Zenon DEF ThreadTypes, DoorTypes
      <3> QED BY <1>1, <1>4, <2>4, <3>1 DEF ThreadTypes
    <2>6. ClockTypes'
      <3>1. dueAt' \in [Reporters -> BOOLEAN]
        BY <1>1, <1>4, Zenon DEF ClockTypes
      <3> QED BY <1>1, <3>1, Zenon DEF ReadBolt, ClockTypes
    <2> QED BY <1>2, <2>4, <2>5, <2>6, PartsNext
  <1> QED BY <1>3, <1>4 DEF ReadBolt

\* What an update remembers and what it sends have their types.
LEMMA SeenFacts ==
    ASSUME ThreadTypes, NEW t \in Reporters
    PROVE  /\ Seen(t) \in [valid : BOOLEAN, open : BOOLEAN, locked : BOOLEAN]
           /\ Beat(t) \in BeatMsgs
           /\ Event("DOOR", SawOpen(t)) \in EventMsgs /\ Event("LOCK", sawLocked[t]) \in EventMsgs
  <1>1. SawOpen(t) \in BOOLEAN /\ sawLocked[t] \in BOOLEAN
    BY DEF SawOpen, ThreadTypes
  <1> QED BY <1>1 DEF Seen, Beat, Event, BeatMsgs, EventMsgs

LEMMA ClockRestartsTypes ==
    ASSUME ClockRestarts PROVE due' \in BOOLEAN /\ dueAt' \in [Reporters -> BOOLEAN]
  BY DEF ClockRestarts

\* The update that ends: the first one, and the last step of any other.
LEMMA EndStep ==
    ASSUME IInv, NEW t \in Reporters, FirstUpdate(t) \/ Save(t)
    PROVE  IInv'
  <1>1. /\ StartInv /\ ReportInv /\ DoorTypes /\ ThreadTypes /\ ClockTypes /\ WireTypes
        /\ view \in Bits
    BY Parts DEF IInv
  <1>2. Return(t) /\ UNCHANGED <<door, notif, view>> /\ prev' = Seen(t)
    BY DEF FirstUpdate, Save, channels
  <1>3. StartInv' /\ ReportInv' /\ ThreadTypes'
    BY <1>1, <1>2, ReturnFacts
  <1>4. DoorTypes' /\ view' \in Bits
    BY <1>1, <1>2, DoorSame
  <1>5. ClockTypes'
    <2>1. due' \in BOOLEAN /\ dueAt' \in [Reporters -> BOOLEAN]
      BY <1>1, ClockRestartsTypes, Zenon DEF FirstUpdate, Save, ClockTypes
    <2>2. prev' \in [valid : BOOLEAN, open : BOOLEAN, locked : BOOLEAN]
      BY <1>1, <1>2, SeenFacts
    <2> QED BY <2>1, <2>2, Zenon DEF ClockTypes
  <1>6. WireTypes'
    <2>1. beats' = beats \/ beats' \in Sent(beats, Beat(t))
      BY DEF FirstUpdate, Save, channels
    <2>2. beats' \in Seq(BeatMsgs) /\ Len(beats') <= MaxQueue
      BY <1>1, <2>1, SentFacts, SeenFacts DEF WireTypes
    <2> QED BY <1>1, <1>2, <2>2 DEF WireTypes
  <1> QED BY <1>3, <1>4, <1>5, <1>6, PartsNext

\* The steps of an update that may send.
LEMMA SendStep ==
    ASSUME IInv, NEW t \in Reporters, NotifyDoor(t) \/ NotifyLock(t) \/ Heartbeat(t)
    PROVE  IInv'
  <1>1. /\ StartInv /\ ReportInv /\ DoorTypes /\ ThreadTypes /\ ClockTypes /\ WireTypes
        /\ view \in Bits
    BY Parts DEF IInv
  <1>2. UNCHANGED <<program, door, local, prev, view>>
    BY DEF NotifyDoor, NotifyLock, Heartbeat
  <1>3. PICK where \in {"lock", "beat", "save"} : Goto(t, where)
    BY DEF NotifyDoor, NotifyLock, Heartbeat
  <1>4. pc[t] \in {"door", "lock", "beat"}
    BY DEF NotifyDoor, NotifyLock, Heartbeat
  <1>5. ReportInv' /\ pc' \in [Reporters -> Places]
    <2>1. Runs(t) /\ sock # -1 /\ where \in Places /\ pc \in [Reporters -> Places]
      BY <1>1, <1>4 DEF ReportInv, ThreadTypes, Places
    <2> QED BY <1>1, <1>2, <1>3, <2>1, GotoReport
  <1>6. StartInv' /\ DoorTypes' /\ view' \in Bits
    BY <1>1, <1>2, SameStartInv, DoorSame
  <1>7. ThreadTypes'
    BY <1>1, <1>2, <1>5 DEF ThreadTypes, local
  <1>8. ClockTypes'
    <2>1. due' \in BOOLEAN /\ dueAt' \in [Reporters -> BOOLEAN]
      BY <1>1, ClockRestartsTypes, Zenon DEF NotifyDoor, NotifyLock, Heartbeat, ClockTypes
    <2> QED BY <1>1, <1>2, <2>1, Zenon DEF ClockTypes
  <1>9. WireTypes'
    <2>1. /\ \/ notif' = notif \/ notif' \in Sent(notif, Event("DOOR", SawOpen(t)))
             \/ notif' \in Sent(notif, Event("LOCK", sawLocked[t]))
          /\ beats' = beats \/ beats' \in Sent(beats, Beat(t))
      BY DEF NotifyDoor, NotifyLock, Heartbeat
    <2>2. notif' \in Seq(EventMsgs) /\ Len(notif') <= MaxQueue
      BY <1>1, <2>1, SentFacts, SeenFacts DEF WireTypes
    <2>3. beats' \in Seq(BeatMsgs) /\ Len(beats') <= MaxQueue
      BY <1>1, <2>1, SentFacts, SeenFacts DEF WireTypes
    <2> QED BY <2>2, <2>3 DEF WireTypes
  <1> QED BY <1>5, <1>6, <1>7, <1>8, <1>9, PartsNext

LEMMA HubStep == IInv /\ (HubEvent \/ HubHeartbeat) => IInv'
  <1> SUFFICES ASSUME IInv, HubEvent \/ HubHeartbeat PROVE IInv'
    OBVIOUS
  <1>1. /\ StartInv /\ ReportInv /\ DoorTypes /\ ThreadTypes /\ ClockTypes /\ WireTypes
        /\ view \in Bits
    BY Parts DEF IInv
  <1>2. StartInv' /\ ReportInv' /\ DoorTypes' /\ ThreadTypes' /\ ClockTypes'
    BY <1>1, SameStartInv, ReportSame, DoorSame, ThreadSame, ClockSame DEF HubEvent, HubHeartbeat
  <1>3. CASE HubEvent
    <2>1. Head(notif) \in EventMsgs /\ Tail(notif) \in Seq(EventMsgs) /\ Len(Tail(notif)) <= MaxQueue
      BY <1>1, <1>3, TakenFacts DEF HubEvent, WireTypes
    <2>2. WireTypes'
      BY <1>1, <1>3, <2>1 DEF HubEvent, WireTypes
    <2>3. OnEvent(Head(notif)) \in Bits
      <3> DEFINE e == Head(notif)
      <3>1. e \in EventMsgs
        BY <2>1
      <3> HIDE DEF e
      <3>2. e.what \in {"DOOR", "LOCK", "HELLO"} /\ e.state \in BOOLEAN
        BY <3>1 DEF EventMsgs
      <3>3. OnEvent(e) \in Bits
        BY <1>1, <3>2 DEF OnEvent, Bits
      <3> QED BY <3>3 DEF e
    <2> QED BY <1>2, <1>3, <2>2, <2>3, PartsNext DEF HubEvent
  <1>4. CASE HubHeartbeat
    <2>1. Head(beats) \in BeatMsgs /\ Tail(beats) \in Seq(BeatMsgs) /\ Len(Tail(beats)) <= MaxQueue
      BY <1>1, <1>4, TakenFacts DEF HubHeartbeat, WireTypes
    <2>2. WireTypes'
      BY <1>1, <1>4, <2>1 DEF HubHeartbeat, WireTypes
    <2>3. OnBeat(Head(beats)) \in Bits
      BY <2>1 DEF OnBeat, Bits, BeatMsgs
    <2> QED BY <1>2, <1>4, <2>2, <2>3, PartsNext DEF HubHeartbeat
  <1> QED BY <1>3, <1>4

-----------------------------------------------------------------------------
LEMMA StepIInv == IInv /\ [Next]_vars => IInv'
  <1> SUFFICES ASSUME IInv, [Next]_vars PROVE IInv'
    OBVIOUS
  <1>1. CASE UNCHANGED vars
    <2>1. UNCHANGED <<program, door, pc, local, prev, due, dueAt, channels, view>>
      BY <1>1 DEF vars, door, local, channels
    <2>2. /\ StartInv /\ ReportInv /\ DoorTypes /\ ThreadTypes /\ ClockTypes /\ WireTypes
          /\ view \in Bits
      BY Parts DEF IInv
    <2>3. /\ StartInv' /\ ReportInv' /\ DoorTypes' /\ ThreadTypes' /\ ClockTypes' /\ WireTypes'
          /\ view' \in Bits
      BY <2>1, <2>2, SameStartInv, ReportSame, DoorSame, ThreadSame, ClockSame, WireSame
    <2> QED BY <2>3, PartsNext
  <1>2. CASE MoveLeaf \/ MoveBolt \/ PeriodPasses
    BY <1>2, EnvironmentStep
  <1>3. CASE Main
    BY <1>3, MainStep
  <1>4. ASSUME NEW t \in Reporters, Report(t) \/ LeaveIdle(t) PROVE IInv'
    <2>1. CASE ReadDistance(t) \/ ReadWrong(t) \/ LeaveIdle(t)
      BY <2>1, ReadStep
    <2>2. CASE ReadBolt(t)
      BY <2>2, ReadBoltStep
    <2>3. CASE FirstUpdate(t) \/ Save(t)
      BY <2>3, EndStep
    <2>4. CASE NotifyDoor(t) \/ NotifyLock(t) \/ Heartbeat(t)
      BY <2>4, SendStep
    <2> QED BY <1>4, <2>1, <2>2, <2>3, <2>4 DEF Report, Update
  <1>5. CASE HubEvent \/ HubHeartbeat
    BY <1>5, HubStep
  <1> QED BY <1>1, <1>2, <1>3, <1>4, <1>5 DEF Next

\* From the start of the door program to its end, the descriptors, the stages of
\* main, the reports and the channels keep to the inductive invariant.
THEOREM Invariant == Spec => []IInv
  <1> QED BY InitIInv, StepIInv, PTL DEF Spec

\* Every variable has its type, and no channel holds more than it may.
THEOREM TypeCorrect == Spec => []TypeOK
  <1>1. IInv => TypeOK
    BY DEF IInv
  <1> QED BY <1>1, Invariant, PTL

\* However the exports, the terminal, the socket and the end follow each other,
\* and whichever calls fail: a line, the terminal and the socket a thread sends
\* by are open behind the descriptor kept for them.
THEOREM DescriptorsAlwaysOwned == Spec => []DescriptorsAreOwned
  <1>1. IInv => DescriptorsAreOwned
    BY DEF IInv, StartInv, OwnInv, ReportInv, DescriptorsAreOwned
  <1> QED BY <1>1, Invariant, PTL
=============================================================================
