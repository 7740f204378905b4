------------------------- MODULE QueryDriverProofs -------------------------
(***************************************************************************)
(* The hand-shake between the reading thread and the progress bar thread   *)
(* is safe for any input and any width of the counters.  The inductive     *)
(* invariant adds to the properties where the bar thread can be in each    *)
(* phase of the run: the status is NONE before the thread has started and  *)
(* after it has left, and it can only leave once the main thread has       *)
(* stopped reading, so that no store of the bar thread hits a pause.       *)
(***************************************************************************)
EXTENDS QueryDriver, DataLemmas

Phases ==
  /\ status = "NONE" <=> bar \in {"absent", "started", "exited"}
  /\ main = "setup" => bar = "absent"
  /\ bar = "absent" => quiet \/ main \in {"setup", "done"}
  /\ bar # "absent" => ~quiet
  /\ bar # "absent" /\ stopped => main \in {"joining", "printing", "done"}
  /\ bar \in {"leaving", "exited"} => main \in {"joining", "printing", "done"}
  /\ main \in {"stopping", "joining"} => bar # "absent"
  /\ main \in {"printing", "done"} => bar \in {"absent", "exited"}

\* The main thread prints its own report when the bar thread has gone.
BarGone == main = "printing" => bar = "exited"

IndexSet == 1 .. Len(files)

\* How far the main thread has got in every file, in bytes (a line is one).
Progress ==
  [i \in IndexSet |->
     IF i < file THEN files[i].lines
     ELSE IF i = file THEN files[i].lines - left ELSE 0]

\* What the two counters hold while the bar thread reads them without a
\* lock: m_infile_read_bytes is the progress, m_n_data lags behind it, and
\* what the bar has loaded or printed was true when it was loaded.
CountersTrack ==
  AllTerminated =>
    /\ prevPos = files[file].lines - left
    /\ readBytes = Sum(Progress, IndexSet)
    /\ nData + (IF main = "updating" THEN 1 ELSE 0) <= readBytes
    /\ lastRead <= readBytes
    /\ bar = "loaded" => report.data <= readBytes
    /\ bar = "printing" => /\ report.data <= report.read
                          /\ lastRead <= report.read
                          /\ report.read <= readBytes

IInv == TypeOK /\ PauseExcludesBar /\ BarGone /\ Phases

CountingInv == IInv /\ CountersTrack

LEMMA Bounds ==
  MaxLines \in Nat /\ Wrap \in Nat /\ MaxLines + 1 < Wrap
<1>1. MaxLines <= MaxFiles * MaxLines
  BY DriverAssumption
<1>2. QED
  BY <1>1, DriverAssumption

LEMMA InitIInv == Init => IInv
<1> SUFFICES ASSUME Init PROVE IInv
  OBVIOUS
<1>1. Len(files) \in Nat \ {0} /\ files[1] \in FileValue
  BY DriverAssumption DEF Init, InputSeqs
<1>2. TypeOK
  <2>1. files \in InputSeqs /\ quiet \in BOOLEAN /\ paused \in BOOLEAN /\ stopped \in BOOLEAN
    BY DEF Init
  <2>2. file \in 1 .. Len(files) /\ left \in 0 .. files[file].lines
    BY <1>1, Bounds DEF Init, FileValue
  <2>3. /\ nData \in Nat /\ readBytes \in 0 .. Wrap - 1 /\ prevPos \in 0 .. Wrap - 1
        /\ lastRead \in 0 .. Wrap - 1 /\ report \in [data : Nat, read : 0 .. Wrap - 1]
    BY Bounds DEF Init
  <2>4. main \in MainPlace /\ bar \in BarPlace /\ status \in Status
    BY DEF Init, MainPlace, BarPlace, Status
  <2>5. QED
    BY <2>1, <2>2, <2>3, <2>4 DEF TypeOK
<1>3. PauseExcludesBar /\ BarGone /\ Phases
  BY DEF Init, PauseExcludesBar, BarGone, Phases, Printing
<1>4. QED
  BY <1>2, <1>3 DEF IInv

\* What TypeOK says of the current file.
LEMMA FileInRange ==
  ASSUME TypeOK
  PROVE  /\ Len(files) \in Nat
         /\ \A i \in 1 .. Len(files) : files[i] \in FileValue
         /\ file \in 1 .. Len(files) /\ files[file] \in FileValue
BY DriverAssumption DEF TypeOK, InputSeqs

LEMMA TypeStep == TypeOK /\ [Next]_vars => TypeOK'
<1> SUFFICES ASSUME TypeOK, [Next]_vars PROVE TypeOK'
  OBVIOUS
<1>0. /\ Len(files) \in Nat
      /\ \A i \in 1 .. Len(files) : files[i] \in FileValue
      /\ file \in 1 .. Len(files) /\ files[file] \in FileValue
  BY FileInRange
<1> USE Bounds
<1>1. CASE ReadLine
  <2>1. left \in 1 .. files[file].lines /\ files[file].lines \in 0 .. MaxLines
    <3>1. left > 0 /\ left \in 0 .. files[file].lines
      BY <1>1 DEF ReadLine, TypeOK
    <3>2. files[file].lines \in 0 .. MaxLines
      BY <1>0 DEF FileValue
    <3>3. QED
      BY <3>1, <3>2
  <2>2. Tellg \in 0 .. Wrap - 1
    BY <2>1 DEF Tellg
  <2>3. (readBytes + Tellg - prevPos) % Wrap \in 0 .. Wrap - 1
    BY <2>2 DEF TypeOK
  <2>4. /\ left' \in 0 .. files'[file'].lines
        /\ readBytes' \in 0 .. Wrap - 1 /\ prevPos' \in 0 .. Wrap - 1
    BY <1>1, <2>1, <2>2, <2>3 DEF ReadLine
  <2>5. QED
    BY <1>1, <2>4 DEF ReadLine, barVars, TypeOK, MainPlace
<1>2. CASE NextFile
  <2>1. file + 1 \in 1 .. Len(files) /\ files[file + 1].lines \in Nat
    BY <1>0, <1>2 DEF NextFile, FileValue
  <2>2. QED
    BY <1>2, <2>1 DEF NextFile, barVars, TypeOK
<1>3. CASE OpenFails \/ Stop \/ Join
  BY <1>3 DEF OpenFails, Stop, Join, barVars, TypeOK, MainPlace
<1>10. CASE Start
  <2>1. CASE quiet
    BY <1>10, <2>1 DEF Start, TypeOK, MainPlace
  <2>2. CASE ~quiet
    <3>1. /\ stopped' = FALSE /\ bar' = "started" /\ lastRead' = 0
          /\ main' = "reading"
          /\ UNCHANGED <<files, quiet, file, left, nData, readBytes, prevPos,
                         status, report, paused>>
      BY <1>10, <2>2 DEF Start
    <3>2. lastRead' \in 0 .. Wrap - 1
      BY <3>1
    <3>3. QED
      BY <3>1, <3>2 DEF TypeOK, MainPlace, BarPlace
  <2>3. QED
    BY <2>1, <2>2
<1>9. CASE Update \/ EndOfInput
  <2>1. CASE Update
    BY <2>1 DEF Update, barVars, TypeOK, MainPlace
  <2>2. CASE EndOfInput
    BY <2>2 DEF EndOfInput, barVars, TypeOK, MainPlace
  <2>3. QED
    BY <1>9, <2>1, <2>2
<1>4. CASE Pause \/ Continue
  BY <1>4 DEF Pause, Continue, barVars, TypeOK, MainPlace, Status
<1>5. CASE PrintFinal
  BY <1>5 DEF PrintFinal, TypeOK, MainPlace
<1>6. CASE Bar
  BY <1>6 DEF Bar, BarEnter, BarCheck, BarWake, BarLoadData, BarLoadBytes,
              BarPrint, BarLeave, mainVars, TypeOK, BarPlace, Status
<1>7. CASE UNCHANGED vars
  BY <1>7 DEF vars, TypeOK
<1>8. QED
  BY <1>1, <1>2, <1>3, <1>4, <1>5, <1>6, <1>7, <1>9, <1>10
  DEF Next, Main, Finished

LEMMA HandShakeStep ==
  IInv /\ [Next]_vars => (PauseExcludesBar /\ BarGone /\ Phases)'
<1> SUFFICES ASSUME IInv, [Next]_vars
             PROVE  (PauseExcludesBar /\ BarGone /\ Phases)'
  OBVIOUS
<1> USE DEF IInv, PauseExcludesBar, BarGone, Phases, Printing
<1>1. CASE OpenFails \/ Start
  BY <1>1 DEF OpenFails, Start, barVars, TypeOK
<1>2. CASE ReadLine
  BY <1>2 DEF ReadLine, barVars
<1>3. CASE Update \/ NextFile
  BY <1>3 DEF Update, NextFile, barVars
<1>4. CASE Pause
  BY <1>4 DEF Pause, barVars
<1>5. CASE Continue
  BY <1>5 DEF Continue, barVars
<1>6. CASE EndOfInput
  <2>1. quiet => bar = "absent"
    OBVIOUS
  <2>2. QED
    BY <1>6, <2>1 DEF EndOfInput, barVars
<1>7. CASE Stop \/ Join \/ PrintFinal
  BY <1>7 DEF Stop, Join, PrintFinal, barVars
<1>8. CASE BarEnter \/ BarCheck \/ BarWake
  BY <1>8 DEF BarEnter, BarCheck, BarWake, mainVars, TypeOK
<1>9. CASE BarLoadData \/ BarLoadBytes \/ BarPrint \/ BarLeave
  BY <1>9 DEF BarLoadData, BarLoadBytes, BarPrint, BarLeave, mainVars
<1>10. CASE UNCHANGED vars
  BY <1>10 DEF vars
<1>11. QED
  BY <1>1, <1>2, <1>3, <1>4, <1>5, <1>6, <1>7, <1>8, <1>9, <1>10
     DEF Next, Main, Bar, Finished

LEMMA Invariance == Spec => []IInv
<1>1. IInv /\ [Next]_vars => IInv'
  BY TypeStep, HandShakeStep DEF IInv
<1>2. QED
  BY <1>1, InitIInv, PTL DEF Spec

\* Every variable keeps its type; in particular file positions and byte
\* counts stay within the counter's width.
THEOREM DriverTypes == Spec => []TypeOK
<1>1. IInv => TypeOK
  BY DEF IInv
<1>2. QED
  BY <1>1, Invariance, PTL

\* A granted pause keeps the progress bar silent until it is continued.
THEOREM PauseIsExclusive == Spec => []PauseExcludesBar
<1>1. IInv => PauseExcludesBar
  BY DEF IInv
<1>2. QED
  BY <1>1, Invariance, PTL

\* A pause is refused only while the bar thread has not started.
THEOREM RefusalIsEarly == Spec => RefusedOnlyAtStart
<1> DEFINE Refusal == main = "pausing" /\ main' = "answering" /\ ~quiet /\ ~paused'
<1>1. IInv /\ [Next]_vars => [Refusal => bar = "started"]_vars
  <2> SUFFICES ASSUME IInv, Next, Refusal PROVE bar = "started"
    BY DEF vars
  <2>1. Pause
    BY DEF Next, Main, Bar, Finished, OpenFails, Start, ReadLine, Update,
           Continue, NextFile, EndOfInput, Stop, Join, PrintFinal, BarEnter,
           BarCheck, BarWake, BarLoadData, BarLoadBytes, BarPrint, BarLeave,
           mainVars, vars
  <2>2. status = "NONE"
    BY <2>1 DEF Pause
  <2>3. QED
    BY <2>1, <2>2 DEF IInv, Phases, TypeOK, BarPlace, Pause, Printing
<1>2. QED
  BY <1>1, Invariance, PTL DEF Spec, RefusedOnlyAtStart

-----------------------------------------------------------------------------
(* The counters                                                            *)

\* Progress is a number of bytes in every file, up to all of it.
LEMMA ProgressTyped ==
  ASSUME TypeOK
  PROVE  /\ IsFiniteSet(IndexSet) /\ IndexSet = DOMAIN files
         /\ file \in IndexSet /\ left \in 0 .. files[file].lines
         /\ \A i \in IndexSet :
              /\ files[i].lines \in 0 .. MaxLines
              /\ Progress[i] \in 0 .. files[i].lines
<1>1. /\ Len(files) \in Nat /\ IndexSet = DOMAIN files
      /\ \A i \in IndexSet : files[i].lines \in 0 .. MaxLines
      /\ file \in IndexSet /\ left \in 0 .. files[file].lines
  BY FileInRange, DriverAssumption DEF TypeOK, InputSeqs, FileValue, IndexSet
<1>2. \A i \in IndexSet : Progress[i] \in 0 .. files[i].lines
  BY <1>1, Bounds DEF Progress, IndexSet
<1>3. IsFiniteSet(IndexSet)
  <2>1. \A n \in Nat : IsFiniteSet(1 .. n)
    BY FS_Interval
  <2>2. QED
    BY <1>1, <2>1 DEF IndexSet
<1>4. QED
  BY <1>1, <1>2, <1>3

\* The progress never exceeds the input, and the input fits the counter.
LEMMA ProgressBounded ==
  ASSUME TypeOK
  PROVE  /\ Sum(Progress, IndexSet) \in Nat
         /\ Sum(Progress, IndexSet) <= TotBytes
         /\ TotBytes \in Nat /\ TotBytes + 1 < Wrap
<1> DEFINE lines == [i \in DOMAIN files |-> files[i].lines]
           all == [i \in IndexSet |-> MaxLines]
           none == [i \in IndexSet |-> 0]
<1>0. /\ IsFiniteSet(IndexSet) /\ IndexSet = DOMAIN files
      /\ \A i \in IndexSet : /\ files[i].lines \in 0 .. MaxLines
                             /\ Progress[i] \in 0 .. files[i].lines
  BY ProgressTyped
<1>1. \A i \in IndexSet : /\ lines[i] = files[i].lines /\ all[i] = MaxLines /\ none[i] = 0
                          /\ lines[i] \in Nat /\ all[i] \in Nat /\ Progress[i] \in Nat
                          /\ Progress[i] <= lines[i] /\ lines[i] <= all[i] /\ none[i] <= Progress[i]
  BY <1>0, Bounds
<1>2. TotBytes = Sum(lines, IndexSet)
  BY <1>0 DEF TotBytes, SumFunction, Sum
<1>3. IndexSet \in SUBSET IndexSet
  OBVIOUS
<1> HIDE DEF lines, all, none
<1>4. Sum(all, IndexSet) = MaxLines * Cardinality(IndexSet)
  BY <1>0, <1>1, <1>3, Bounds, SumConstant
<1>5. Sum(none, IndexSet) = 0 * Cardinality(IndexSet)
  BY <1>0, <1>1, <1>3, SumConstant
<1>6. Len(files) \in 1 .. MaxFiles /\ Cardinality(IndexSet) = Len(files)
  <2>1. Len(files) \in 1 .. MaxFiles
    BY DriverAssumption DEF TypeOK, InputSeqs
  <2>2. QED
    BY <2>1, FS_Interval, DriverAssumption DEF IndexSet
<1>7. MaxLines * Len(files) <= MaxFiles * MaxLines
  BY <1>6, DriverAssumption
<1>8. /\ Sum(none, IndexSet) <= Sum(Progress, IndexSet)
      /\ Sum(Progress, IndexSet) <= Sum(lines, IndexSet)
      /\ Sum(lines, IndexSet) <= Sum(all, IndexSet)
  BY <1>0, <1>1, SumMonotonic
<1>9. Sum(Progress, IndexSet) \in Int /\ Sum(lines, IndexSet) \in Int
  BY <1>0, <1>1, SumStep
<1>10. Sum(none, IndexSet) = 0
  BY <1>5, <1>6
<1> DEFINE most == MaxFiles * MaxLines
<1>11. Wrap \in Nat /\ most + 1 < Wrap /\ most \in Nat
  BY DriverAssumption
<1>12. Sum(all, IndexSet) <= most
  BY <1>4, <1>6, <1>7
<1>13. Sum(all, IndexSet) \in Int
  BY <1>0, <1>1, SumStep
<1> HIDE DEF most
<1>14. QED
  BY <1>2, <1>8, <1>9, <1>10, <1>11, <1>12, <1>13

\* A line read is one byte more of progress in the current file.
LEMMA ReadLineProgress ==
  ASSUME TypeOK, ReadLine
  PROVE  Sum(Progress, IndexSet)' = Sum(Progress, IndexSet) + 1
<1>0. /\ IsFiniteSet(IndexSet) /\ file \in IndexSet /\ left \in 0 .. files[file].lines
      /\ \A i \in IndexSet : /\ files[i].lines \in 0 .. MaxLines
                             /\ Progress[i] \in 0 .. files[i].lines
  BY ProgressTyped
<1>1. files' = files /\ file' = file /\ left' = left - 1
  BY DEF ReadLine
<1>2. \A i \in IndexSet : files[i].lines \in Int /\ Progress[i] \in Int
  BY <1>0, Bounds
<1>3. Progress = [i \in IndexSet |-> Progress[i]]
  BY DEF Progress, IndexSet
<1>4. Progress' = [i \in IndexSet |-> IF i = file THEN Progress[i] + 1 ELSE Progress[i]]
  <2>1. files[file].lines - left' = files[file].lines - left + 1
    BY <1>0, <1>1, <1>2
  <2>2. Progress' = [i \in IndexSet |->
                      IF i < file THEN files[i].lines
                      ELSE IF i = file THEN files[file].lines - left' ELSE 0]
    BY <1>1 DEF Progress, IndexSet
  <2>3. ASSUME NEW i \in IndexSet
        PROVE  (IF i < file THEN files[i].lines
                ELSE IF i = file THEN files[file].lines - left' ELSE 0)
               = IF i = file THEN Progress[i] + 1 ELSE Progress[i]
    BY <2>1, <1>0 DEF Progress, IndexSet
  <2>4. QED
    BY <2>2, <2>3
<1>5. PICK after : after = Progress'
  OBVIOUS
<1>6. \A i \in IndexSet : after[i] = IF i = file THEN Progress[i] + 1 ELSE Progress[i]
  BY <1>4, <1>5
<1>7. Sum(after, IndexSet) = Sum(Progress, IndexSet) + 1
  <2>1. IsFiniteSet(IndexSet) /\ file \in IndexSet
    BY <1>0
  <2>2. \A i \in IndexSet : Progress[i] \in Int
    BY <1>2
  <2>3. Raised(after, Progress, IndexSet, file, 1)
    BY <1>6 DEF Raised
  <2>4. QED
    BY ONLY <2>1, <2>2, <2>3, SumIncrement
<1>8. IndexSet' = IndexSet
  BY <1>1 DEF IndexSet
<1>9. QED
  BY <1>5, <1>7, <1>8

\* The next file starts where the progress of the last one ends.
LEMMA NextFileProgress ==
  ASSUME TypeOK, NextFile
  PROVE  Progress' = Progress /\ IndexSet' = IndexSet
<1>0. /\ file \in IndexSet
      /\ \A i \in IndexSet : files[i].lines \in 0 .. MaxLines
  BY ProgressTyped
<1>1. /\ files' = files /\ file' = file + 1 /\ left = 0
      /\ left' = files[file + 1].lines /\ file < Len(files)
  BY DEF NextFile
<1>2. \A i \in IndexSet : files[i].lines \in Int
  BY <1>0, Bounds
<1>3. IndexSet' = IndexSet /\ file + 1 \in IndexSet
  BY <1>0, <1>1, FileInRange DEF IndexSet
<1>4. Progress' = [i \in IndexSet |->
                    IF i < file + 1 THEN files[i].lines
                    ELSE IF i = file + 1 THEN files[i].lines - files[file + 1].lines ELSE 0]
  BY <1>1, <1>3 DEF Progress
<1>5. ASSUME NEW i \in IndexSet
      PROVE  (IF i < file + 1 THEN files[i].lines
              ELSE IF i = file + 1 THEN files[i].lines - files[file + 1].lines ELSE 0)
             = IF i < file THEN files[i].lines
               ELSE IF i = file THEN files[i].lines - left ELSE 0
  BY <1>0, <1>1, <1>2 DEF IndexSet
<1>6. QED
  BY <1>3, <1>4, <1>5 DEF Progress

\* At the end of the last file the progress is the whole input.
LEMMA ProgressAtEnd ==
  ASSUME TypeOK, file = Len(files), left = 0
  PROVE  Sum(Progress, IndexSet) = TotBytes
<1> DEFINE lines == [i \in DOMAIN files |-> files[i].lines]
<1>1. /\ Len(files) \in Nat /\ IndexSet = DOMAIN files
      /\ \A i \in IndexSet : files[i].lines \in 0 .. MaxLines
  BY ProgressTyped, FileInRange
<1>2. ASSUME NEW i \in IndexSet
      PROVE  (IF i < file THEN files[i].lines
              ELSE IF i = file THEN files[i].lines - left ELSE 0) = files[i].lines
  <2>1. files[i].lines \in Int /\ i \in 1 .. Len(files)
    BY <1>1, Bounds DEF IndexSet
  <2>2. QED
    BY <1>1, <2>1
<1>3. Progress = lines
  BY <1>1, <1>2 DEF Progress
<1>4. QED
  BY <1>1, <1>3 DEF TotBytes, SumFunction, Sum

LEMMA InitCounters == Init => CountersTrack
<1> SUFFICES ASSUME Init PROVE CountersTrack
  OBVIOUS
<1>1. TypeOK
  BY InitIInv DEF IInv
<1>2. /\ IsFiniteSet(IndexSet) /\ file \in IndexSet
      /\ \A i \in IndexSet : files[i].lines \in 0 .. MaxLines
  BY <1>1, ProgressTyped
<1>3. file = 1 /\ left = files[1].lines /\ files[1].lines \in Int
  BY <1>2, Bounds DEF Init
<1>4. \A i \in IndexSet : Progress[i] = IF i \in {} THEN 0 ELSE 0
  BY <1>2, <1>3 DEF Progress, IndexSet
<1>5. Sum(Progress, IndexSet) = 0 * Cardinality({})
  BY <1>2, <1>4, SumConstant
<1>6. Sum(Progress, IndexSet) = 0
  BY <1>5, FS_EmptySet
<1>7. QED
  BY <1>3, <1>6 DEF Init, CountersTrack

LEMMA CountersStep == CountingInv /\ [Next]_vars => CountersTrack'
<1> SUFFICES ASSUME IInv, CountersTrack, [Next]_vars, AllTerminated'
             PROVE  /\ prevPos' = files'[file'].lines - left'
                    /\ readBytes' = Sum(Progress, IndexSet)'
                    /\ nData' + (IF main' = "updating" THEN 1 ELSE 0) <= readBytes'
                    /\ lastRead' <= readBytes'
                    /\ bar' = "loaded" => report'.data <= readBytes'
                    /\ bar' = "printing" => /\ report'.data <= report'.read
                                           /\ lastRead' <= report'.read
                                           /\ report'.read <= readBytes'
  BY DEF CountingInv, CountersTrack
<1>1. TypeOK /\ AllTerminated
  BY DEF IInv, AllTerminated, Next, Main, Bar, Finished, OpenFails, Start,
         ReadLine, Update, Pause, Continue, NextFile, EndOfInput, Stop, Join,
         PrintFinal, BarEnter, BarCheck, BarWake, BarLoadData, BarLoadBytes,
         BarPrint, BarLeave, vars
<1>2. /\ nData \in Nat /\ readBytes \in Nat /\ prevPos \in Nat /\ lastRead \in Nat
      /\ report \in [data : Nat, read : Nat]
      /\ left \in Nat /\ files[file].lines \in Nat /\ left <= files[file].lines
      /\ file \in DOMAIN files
  BY <1>1, ProgressTyped, Bounds DEF TypeOK
<1>3. /\ prevPos = files[file].lines - left
      /\ readBytes = Sum(Progress, IndexSet)
      /\ nData + (IF main = "updating" THEN 1 ELSE 0) <= readBytes
      /\ lastRead <= readBytes
      /\ bar = "loaded" => report.data <= readBytes
      /\ bar = "printing" => /\ report.data <= report.read
                            /\ lastRead <= report.read
                            /\ report.read <= readBytes
  BY <1>1 DEF CountersTrack
<1>4. CASE ReadLine
  <2>1. Tellg = files[file].lines - left + 1
    BY <1>1, <1>2 DEF Tellg, AllTerminated
  <2>2. readBytes + Tellg - prevPos = readBytes + 1
    BY <1>2, <1>3, <2>1
  <2>3. readBytes + 1 < Wrap /\ Wrap \in Nat
    BY <1>1, <1>2, <1>3, ProgressBounded, Bounds
  <2>4. (readBytes + 1) % Wrap = readBytes + 1
    BY <1>2, <2>3
  <2>5. readBytes' = readBytes + 1
    BY <1>4, <2>2, <2>4 DEF ReadLine
  <2>6. Sum(Progress, IndexSet)' = Sum(Progress, IndexSet) + 1
    BY <1>1, <1>4, ReadLineProgress
  <2>7. prevPos' = files'[file'].lines - left'
    BY <1>2, <1>4, <2>1 DEF ReadLine
  <2>8. /\ nData' = nData /\ bar' = bar /\ report' = report /\ lastRead' = lastRead
        /\ main = "reading"
    BY <1>4 DEF ReadLine, barVars
  <2>9. QED
    BY <1>2, <1>3, <2>5, <2>6, <2>7, <2>8
<1>5. CASE NextFile
  <2>1. Sum(Progress, IndexSet)' = Sum(Progress, IndexSet)
    BY <1>1, <1>5, NextFileProgress
  <2>2. /\ nData' = nData /\ bar' = bar /\ report' = report /\ lastRead' = lastRead
        /\ main' = main /\ readBytes' = readBytes
        /\ prevPos' = 0 /\ left' = files[file'].lines /\ files' = files
    BY <1>5 DEF NextFile, barVars
  <2>3. files[file'].lines \in Int
    <3>1. file' \in IndexSet
      BY <1>5, FileInRange, <1>1 DEF NextFile, IndexSet
    <3>2. QED
      BY <1>1, <3>1, ProgressTyped, Bounds
  <2>4. QED
    BY <1>3, <2>1, <2>2, <2>3
<1>6. ASSUME UNCHANGED <<files, file, left, readBytes, prevPos>>
      PROVE  /\ prevPos' = files'[file'].lines - left'
             /\ Sum(Progress, IndexSet)' = Sum(Progress, IndexSet)
             /\ readBytes' = readBytes
  BY <1>3, <1>6 DEF Progress, IndexSet
<1>7. CASE Update
  BY <1>2, <1>3, <1>6, <1>7 DEF Update, barVars
<1>8. CASE OpenFails \/ Pause \/ Continue \/ EndOfInput \/ Stop \/ Join
  <2>1. /\ UNCHANGED <<files, file, left, readBytes, prevPos, nData, bar, report, lastRead>>
        /\ main' # "updating"
    BY <1>8 DEF OpenFails, Pause, Continue, EndOfInput, Stop, Join, barVars
  <2>2. nData <= readBytes
    BY <1>2, <1>3
  <2>3. QED
    BY <1>2, <1>3, <1>6, <2>1, <2>2
<1>9. CASE Start
  <2>1. /\ UNCHANGED <<files, file, left, readBytes, prevPos, nData, report>>
        /\ main' # "updating" /\ main = "setup"
        /\ bar' = bar \/ bar' = "started"
        /\ lastRead' = lastRead \/ lastRead' = 0
    BY <1>9 DEF Start
  <2>2. bar = "absent"
    BY <2>1 DEF IInv, Phases
  <2>3. QED
    BY <1>2, <1>3, <1>6, <2>1, <2>2
<1>10. CASE PrintFinal
  <2>1. bar = "exited"
    BY <1>10 DEF IInv, BarGone, PrintFinal
  <2>2. QED
    BY <1>2, <1>3, <1>6, <1>10, <2>1 DEF PrintFinal
<1>11. CASE BarEnter \/ BarCheck \/ BarWake \/ BarLeave
  BY <1>3, <1>6, <1>11 DEF BarEnter, BarCheck, BarWake, BarLeave, mainVars
<1>12. CASE BarLoadData
  <2>1. nData <= readBytes
    BY <1>2, <1>3
  <2>2. /\ report'.data = nData /\ bar' = "loaded" /\ lastRead' = lastRead /\ nData' = nData
        /\ main' = main /\ UNCHANGED <<files, file, left, readBytes, prevPos>>
    BY <1>2, <1>12 DEF BarLoadData, mainVars
  <2>3. QED
    BY <1>3, <1>6, <2>1, <2>2
<1>13. CASE BarLoadBytes
  <2>1. /\ report'.data = report.data /\ report'.read = readBytes /\ bar' = "printing"
        /\ lastRead' = lastRead /\ nData' = nData /\ bar = "loaded"
        /\ main' = main /\ UNCHANGED <<files, file, left, readBytes, prevPos>>
    BY <1>2, <1>13 DEF BarLoadBytes, mainVars
  <2>2. QED
    BY <1>2, <1>3, <1>6, <2>1
<1>14. CASE BarPrint
  <2>1. /\ lastRead' = report.read /\ bar' = "checking" /\ bar = "printing" /\ nData' = nData
        /\ main' = main /\ UNCHANGED <<files, file, left, readBytes, prevPos>>
    BY <1>14 DEF BarPrint, mainVars
  <2>2. QED
    BY <1>3, <1>6, <2>1
<1>15. CASE UNCHANGED vars
  BY <1>3, <1>6, <1>15 DEF vars
<1>16. QED
  BY <1>4, <1>5, <1>7, <1>8, <1>9, <1>10, <1>11, <1>12, <1>13, <1>14, <1>15
     DEF Next, Main, Bar, Finished

\* What the bar prints is coherent although it takes no lock, for any input
\* whose files end in a newline: no report counts a point before its line,
\* none goes back, and none exceeds the input, so that neither difference
\* it computes wraps around.
THEOREM ReportsAreCoherent == Spec => []ReportCoherent
<1>1. Init => CountersTrack
  BY InitCounters
<1>2. IInv /\ CountersTrack /\ [Next]_vars => CountersTrack'
  BY CountersStep DEF CountingInv
<1>3. IInv /\ CountersTrack => ReportCoherent
  <2> SUFFICES ASSUME IInv, CountersTrack, AllTerminated, bar = "printing"
               PROVE  /\ report.data <= report.read /\ lastRead <= report.read
                      /\ report.read <= TotBytes
    BY DEF ReportCoherent
  <2>1. TypeOK
    BY DEF IInv
  <2>2. /\ report.read \in Int /\ report.read <= readBytes
        /\ readBytes = Sum(Progress, IndexSet)
    BY <2>1, Bounds DEF CountersTrack, TypeOK
  <2>3. QED
    BY <2>1, <2>2, ProgressBounded DEF CountersTrack
<1>4. QED
  BY <1>1, <1>2, <1>3, Invariance, PTL DEF Spec

-----------------------------------------------------------------------------
(* The final report                                                        *)

\* A bar thread is stopped only when every file has been read; and when the
\* run is over the bar thread has gone, so that nothing has overwritten what
\* the main thread printed last.
AtTheEnd ==
  /\ bar # "absent" /\ main \in {"stopping", "joining", "printing", "done"} =>
       file = Len(files) /\ left = 0
  /\ bar # "absent" /\ main = "done" =>
       bar = "exited" /\ report.data = nData /\ report.read = readBytes /\ lastRead = readBytes

LEMMA EndStep == IInv /\ AtTheEnd /\ [Next]_vars => AtTheEnd'
<1> SUFFICES ASSUME IInv, AtTheEnd, [Next]_vars PROVE AtTheEnd'
  OBVIOUS
<1>1. CASE OpenFails \/ Start
  <2>1. bar = "absent" /\ main = "setup"
    BY <1>1 DEF IInv, Phases, OpenFails, Start
  <2>2. QED
    BY <1>1, <2>1 DEF AtTheEnd, OpenFails, Start, barVars
<1>2. CASE ReadLine \/ Update \/ Pause \/ Continue \/ NextFile
  BY <1>2 DEF AtTheEnd, ReadLine, Update, Pause, Continue, NextFile
<1>3. CASE EndOfInput
  <2>1. quiet => bar = "absent"
    BY DEF IInv, Phases
  <2>2. QED
    BY <1>3, <2>1 DEF AtTheEnd, EndOfInput, barVars
<1>4. CASE Stop \/ Join
  BY <1>4 DEF AtTheEnd, Stop, Join, barVars
<1>5. CASE PrintFinal
  <2>1. bar = "exited" /\ main = "printing"
    BY <1>5 DEF IInv, BarGone, PrintFinal
  <2>2. QED
    BY <1>5, <2>1 DEF AtTheEnd, PrintFinal
<1>6. CASE Bar
  <2>1. bar \notin {"absent", "exited"} /\ UNCHANGED <<files, mainVars>>
    BY <1>6 DEF Bar, BarEnter, BarCheck, BarWake, BarLoadData, BarLoadBytes,
                BarPrint, BarLeave
  <2>2. main # "done" /\ main # "printing"
    BY <2>1 DEF IInv, Phases
  <2>3. QED
    BY <2>1, <2>2 DEF AtTheEnd, mainVars
<1>7. CASE UNCHANGED vars
  BY <1>7 DEF AtTheEnd, vars
<1>8. QED
  BY <1>1, <1>2, <1>3, <1>4, <1>5, <1>6, <1>7 DEF Next, Main, Finished

\* The last report is of the whole input, for any files and any width of the
\* counters: no interleaving with the bar thread, no pause and no change of
\* file loses a byte, and no late report of the bar thread follows it.
THEOREM FinalReportIsComplete == Spec => []FinalReportComplete
<1>1. Init => AtTheEnd /\ CountersTrack
  BY InitCounters DEF Init, AtTheEnd
<1>2. IInv /\ AtTheEnd /\ CountersTrack /\ [Next]_vars => AtTheEnd' /\ CountersTrack'
  BY CountersStep, EndStep DEF CountingInv
<1>3. IInv /\ AtTheEnd /\ CountersTrack => FinalReportComplete
  <2> SUFFICES ASSUME IInv, AtTheEnd, CountersTrack, main = "done", bar # "absent"
               PROVE  /\ bar = "exited" /\ report.data = nData /\ lastRead = report.read
                      /\ AllTerminated => lastRead = TotBytes
    BY DEF FinalReportComplete
  <2>1. /\ bar = "exited" /\ report.data = nData /\ report.read = readBytes
        /\ lastRead = readBytes /\ file = Len(files) /\ left = 0
    BY DEF AtTheEnd
  <2>2. AllTerminated => readBytes = TotBytes
    BY <2>1, ProgressAtEnd DEF IInv, CountersTrack
  <2>3. QED
    BY <2>1, <2>2
<1>4. QED
  BY <1>1, <1>2, <1>3, Invariance, PTL DEF Spec
=============================================================================
