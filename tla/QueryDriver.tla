---------------------------- MODULE QueryDriver ----------------------------
(***************************************************************************)
(* Query::run of query.cpp: the main thread reads the input files line by  *)
(* line, updates the sketches or answers a request, while a second thread  *)
(* prints the progress bar.  The two synchronise on m_progress_bar_status  *)
(* by compare-and-swap and on the flag m_progress_bar_stopped, and the bar *)
(* reads the main thread's two counters without a lock.                    *)
(*                                                                         *)
(* A step is one access to shared state.  A line is one byte long; what a  *)
(* line says matters only as far as it is data, a request (a query or a    *)
(* stats line, both pause the bar) or neither.                             *)
(***************************************************************************)
EXTENDS Integers, Sequences, Functions

CONSTANTS
  MaxFiles,   \* bound on the number of input files
  MaxLines,   \* bound on the number of lines of a file
  Wrap        \* the width of the counters: 2^64 in the code

ASSUME DriverAssumption ==
  /\ MaxFiles \in Nat \ {0}
  /\ MaxLines \in Nat
  /\ Wrap \in Nat /\ Wrap > MaxFiles * MaxLines + 1

VARIABLES
  files,      \* the input: number of lines, and does the last one end in \n
  quiet,      \* m_suppress_progress_bar
  main,       \* where the main thread is
  file,       \* the file being read (m_next_infile_idx - 1, from 1)
  left,       \* lines of it that are still to be read
  nData,      \* m_n_data
  readBytes,  \* m_infile_read_bytes
  prevPos,    \* m_infile_prev_pos
  bar,        \* where the progress bar thread is
  status,     \* m_progress_bar_status
  stopped,    \* m_progress_bar_stopped
  report,     \* what the running print_progress_bar_content has loaded
  lastRead,   \* m_infile_last_read_bytes
  paused      \* history: the pause in force was granted by the CAS

mainVars == <<main, file, left, nData, readBytes, prevPos>>
barVars == <<bar, report, lastRead>>
vars == <<files, quiet, main, file, left, nData, readBytes, prevPos, bar,
          status, stopped, report, lastRead, paused>>

\* m_infile_tot_bytes.
TotBytes == SumFunction([i \in DOMAIN files |-> files[i].lines])

Status == {"NONE", "WAITING", "REFRESHING", "PAUSED"}
FileValue == [lines : 0 .. MaxLines, terminated : BOOLEAN]
InputSeqs == UNION {[1 .. n -> FileValue] : n \in 1 .. MaxFiles}

MainPlace == {"setup", "reading", "updating", "pausing", "answering",
              "stopping", "joining", "printing", "done"}
BarPlace == {"absent", "started", "checking", "asleep", "loading", "loaded",
             "printing", "leaving", "exited"}
Printing == {"loading", "loaded", "printing"}

Init ==
  /\ files \in InputSeqs
  /\ quiet \in BOOLEAN
  /\ main = "setup"
  /\ file = 1
  /\ left = files[1].lines
  /\ nData = 0 /\ readBytes = 0 /\ prevPos = 0
  /\ bar = "absent"
  /\ status = "NONE"
  /\ stopped = TRUE
  /\ report = [data |-> 0, read |-> 0]
  /\ lastRead = 0
  /\ paused = FALSE

-----------------------------------------------------------------------------
(* The main thread                                                         *)

\* The first file cannot be opened: run returns 1.
OpenFails ==
  /\ main = "setup"
  /\ main' = "done"
  /\ UNCHANGED <<files, quiet, file, left, nData, readBytes, prevPos, barVars,
                 status, stopped, paused>>

\* start_progress_bar; the thread is created but has not run yet.
Start ==
  /\ main = "setup"
  /\ main' = "reading"
  /\ IF quiet THEN UNCHANGED <<stopped, bar, lastRead>>
     ELSE stopped' = FALSE /\ bar' = "started" /\ lastRead' = 0
  /\ UNCHANGED <<files, quiet, file, left, nData, readBytes, prevPos, status,
                 report, paused>>

\* tellg after getline: -1 once getline has hit the end of the file, which
\* it does on a last line that does not end in a newline.
Tellg == IF left = 1 /\ ~files[file].terminated THEN Wrap - 1
         ELSE files[file].lines - left + 1

\* Variant: getline's failure at the end of the file goes unnoticed.
ReadLineAtEnd ==
  /\ main = "reading"
  /\ left' = left - 1
  /\ readBytes' = (readBytes + Tellg - prevPos) % Wrap
  /\ prevPos' = Tellg
  /\ main' \in {"updating", "pausing", "reading"}
  /\ UNCHANGED <<files, quiet, file, nData, barVars, status, stopped, paused>>

ReadLine ==
  /\ main = "reading" /\ left > 0
  /\ left' = left - 1
  /\ readBytes' = (readBytes + Tellg - prevPos) % Wrap
  /\ prevPos' = Tellg
  /\ main' \in {"updating", "pausing", "reading"}   \* data, request, neither
  /\ UNCHANGED <<files, quiet, file, nData, barVars, status, stopped, paused>>

\* Every sketch is updated, then the point is counted.
Update ==
  /\ main = "updating"
  /\ nData' = nData + 1
  /\ main' = "reading"
  /\ UNCHANGED <<files, quiet, file, left, readBytes, prevPos, barVars,
                 status, stopped, paused>>

\* pause_progress_bar: the CAS, tried again every 10 ms while the bar is
\* being refreshed and given up when the status is NONE.
Pause ==
  /\ main = "pausing"
  /\ \/ quiet /\ UNCHANGED <<status, paused>>
     \/ ~quiet /\ status = "WAITING" /\ status' = "PAUSED" /\ paused' = TRUE
     \/ ~quiet /\ status = "NONE" /\ UNCHANGED <<status, paused>>
  /\ main' = "answering"
  /\ UNCHANGED <<files, quiet, file, left, nData, readBytes, prevPos, barVars,
                 stopped>>

\* Variant: the status is left as it is.
ContinueKeepsPause ==
  /\ main = "answering"
  /\ paused' = FALSE
  /\ main' = "reading"
  /\ UNCHANGED <<files, quiet, file, left, nData, readBytes, prevPos, barVars,
                 status, stopped>>

\* The request has been answered: continue_progress_bar.
Continue ==
  /\ main = "answering"
  /\ status' = IF ~quiet /\ status = "PAUSED" THEN "WAITING" ELSE status
  /\ paused' = FALSE
  /\ main' = "reading"
  /\ UNCHANGED <<files, quiet, file, left, nData, readBytes, prevPos, barVars,
                 stopped>>

\* Variant: m_infile_prev_pos keeps the position in the old file.
NextFileKeepsPos ==
  /\ main = "reading" /\ left = 0 /\ file < Len(files)
  /\ file' = file + 1
  /\ left' = files[file + 1].lines
  /\ UNCHANGED <<files, quiet, main, nData, readBytes, prevPos, barVars,
                 status, stopped, paused>>

\* End of a file that is not the last (its statistics are printed without
\* pausing the bar).
NextFile ==
  /\ main = "reading" /\ left = 0 /\ file < Len(files)
  /\ file' = file + 1
  /\ left' = files[file + 1].lines
  /\ prevPos' = 0
  /\ UNCHANGED <<files, quiet, main, nData, readBytes, barVars, status,
                 stopped, paused>>

\* Variant: the files after the first are not read.
EndOfFirstFile ==
  /\ main = "reading" /\ left = 0
  /\ main' = IF quiet THEN "done" ELSE "stopping"
  /\ UNCHANGED <<files, quiet, file, left, nData, readBytes, prevPos, barVars,
                 status, stopped, paused>>

EndOfInput ==
  /\ main = "reading" /\ left = 0 /\ file = Len(files)
  /\ main' = IF quiet THEN "done" ELSE "stopping"
  /\ UNCHANGED <<files, quiet, file, left, nData, readBytes, prevPos, barVars,
                 status, stopped, paused>>

Stop ==
  /\ main = "stopping"
  /\ stopped' = TRUE
  /\ main' = "joining"
  /\ UNCHANGED <<files, quiet, file, left, nData, readBytes, prevPos, barVars,
                 status, paused>>

Join ==
  /\ main = "joining" /\ bar = "exited"
  /\ main' = "printing"
  /\ UNCHANGED <<files, quiet, file, left, nData, readBytes, prevPos, barVars,
                 status, stopped, paused>>

\* The main thread prints the last report itself.
PrintFinal ==
  /\ main = "printing"
  /\ report' = [data |-> nData, read |-> readBytes]
  /\ lastRead' = readBytes
  /\ main' = "done"
  /\ UNCHANGED <<files, quiet, file, left, nData, readBytes, prevPos, bar,
                 status, stopped, paused>>

Main ==
  \/ OpenFails \/ Start \/ ReadLine \/ Update \/ Pause \/ Continue
  \/ NextFile \/ EndOfInput \/ Stop \/ Join \/ PrintFinal

-----------------------------------------------------------------------------
(* The progress bar thread: show_progress_bar                              *)

\* Variant: the thread does not announce itself.
BarEnterSilent ==
  /\ bar = "started"
  /\ bar' = "checking"
  /\ UNCHANGED <<files, quiet, mainVars, status, stopped, report, lastRead, paused>>

BarEnter ==
  /\ bar = "started"
  /\ status' = "WAITING"
  /\ bar' = "checking"
  /\ UNCHANGED <<files, quiet, mainVars, stopped, report, lastRead, paused>>

BarCheck ==
  /\ bar = "checking"
  /\ bar' = IF stopped THEN "leaving" ELSE "asleep"
  /\ UNCHANGED <<files, quiet, mainVars, status, stopped, report, lastRead, paused>>

\* Variant: the CAS also takes over a paused bar.
BarWakeAnyStatus ==
  /\ bar = "asleep"
  /\ status' = "REFRESHING" /\ bar' = "loading"
  /\ UNCHANGED <<files, quiet, mainVars, stopped, report, lastRead, paused>>

\* The interval is over: the CAS from WAITING to REFRESHING, or another
\* turn of the loop.
BarWake ==
  /\ bar = "asleep"
  /\ \/ status = "WAITING" /\ status' = "REFRESHING" /\ bar' = "loading"
     \/ status # "WAITING" /\ bar' = "checking" /\ UNCHANGED status
  /\ UNCHANGED <<files, quiet, mainVars, stopped, report, lastRead, paused>>

\* print_progress_bar_content loads one counter, then the other.
BarLoadData ==
  /\ bar = "loading"
  /\ report' = [report EXCEPT !.data = nData]
  /\ bar' = "loaded"
  /\ UNCHANGED <<files, quiet, mainVars, status, stopped, lastRead, paused>>

BarLoadBytes ==
  /\ bar = "loaded"
  /\ report' = [report EXCEPT !.read = readBytes]
  /\ bar' = "printing"
  /\ UNCHANGED <<files, quiet, mainVars, status, stopped, lastRead, paused>>

BarPrint ==
  /\ bar = "printing"
  /\ lastRead' = report.read
  /\ status' = "WAITING"
  /\ bar' = "checking"
  /\ UNCHANGED <<files, quiet, mainVars, stopped, report, paused>>

BarLeave ==
  /\ bar = "leaving"
  /\ status' = "NONE"
  /\ bar' = "exited"
  /\ UNCHANGED <<files, quiet, mainVars, stopped, report, lastRead, paused>>

Bar ==
  \/ BarEnter \/ BarCheck \/ BarWake \/ BarLoadData \/ BarLoadBytes
  \/ BarPrint \/ BarLeave

\* run has returned.
Finished == main = "done" /\ UNCHANGED vars

Next == Main \/ Bar \/ Finished

\* Both threads are scheduled.  Strong fairness of Pause stands for the
\* timing: between two refreshes the status is WAITING for a whole interval
\* (at least 500 ms), and the main thread tries every 10 ms.
Fairness ==
  /\ WF_vars(Main)
  /\ WF_vars(Bar)
  /\ SF_vars(Pause)

Spec == Init /\ [][Next]_vars /\ Fairness

-----------------------------------------------------------------------------
(* Properties                                                              *)

TypeOK ==
  /\ files \in InputSeqs
  /\ quiet \in BOOLEAN
  /\ main \in MainPlace
  /\ file \in 1 .. Len(files)
  /\ left \in 0 .. files[file].lines
  /\ nData \in Nat
  /\ readBytes \in 0 .. Wrap - 1
  /\ prevPos \in 0 .. Wrap - 1
  /\ bar \in BarPlace
  /\ status \in Status
  /\ stopped \in BOOLEAN
  /\ report \in [data : Nat, read : 0 .. Wrap - 1]
  /\ lastRead \in 0 .. Wrap - 1
  /\ paused \in BOOLEAN

\* The status says who may write to the terminal: it is REFRESHING exactly
\* while the bar thread is printing and PAUSED exactly while the main thread
\* answers under a granted pause, so a granted pause keeps the bar silent.
PauseExcludesBar ==
  /\ status = "REFRESHING" <=> bar \in Printing
  /\ status = "PAUSED" <=> paused
  /\ paused => main = "answering"

\* A pause is refused only because the bar thread has not started yet, never
\* because it has gone.
RefusedOnlyAtStart ==
  [][main = "pausing" /\ main' = "answering" /\ ~quiet /\ ~paused'
       => bar = "started"]_vars

AllTerminated == \A i \in DOMAIN files : files[i].terminated

\* A report is coherent although its two counters are loaded without a lock:
\* it never counts a data point whose line it does not count as read, it
\* never goes back (delta_bytes does not wrap) and never exceeds the input
\* (rem_bytes does not wrap).  For input files whose last line ends in a
\* newline: otherwise tellg's -1 gets into m_infile_read_bytes.
ReportCoherent ==
  AllTerminated /\ bar = "printing" =>
    /\ report.data <= report.read
    /\ lastRead <= report.read
    /\ report.read <= TotBytes

\* What the terminal shows last is the whole input: once the main thread is
\* done, the bar thread has gone and leaves its report alone, and whatever
\* the pauses and the changes of files in between, that report counts every
\* data point and every byte of every file, a bar at 100 %.
FinalReportComplete ==
  main = "done" /\ bar # "absent" =>
    /\ bar = "exited"
    /\ report.data = nData /\ lastRead = report.read
    /\ AllTerminated => lastRead = TotBytes

\* The run comes to its end whatever the bar thread does: no request waits
\* for ever for the bar, and the bar thread notices that it was stopped.
RunEnds == <>(main = "done")

\* continue_progress_bar's assertion: it finds its own pause, or no thread.
ContinueFindsPause ==
  main = "answering" /\ ~quiet => status \in {"PAUSED", "NONE"}
=============================================================================
