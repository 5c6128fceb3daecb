------------------------------- MODULE CELLLog --------------------------------
(***************************************************************************)
(* CELLLog of v2/include/CELLLog.hpp: Info gives the task server a task    *)
(* that writes a line to _logFile, if there is one, and prints it; main    *)
(* opens the file with setLogPath.  Nothing guards _logFile: the task      *)
(* tests it once and then reads it again with every fprintf.               *)
(*                                                                         *)
(* To use a FILE that is closed or null is undefined; here the text is     *)
(* lost, fault is set and the program goes on.                             *)
(***************************************************************************)
EXTENDS CellTaskServer

CONSTANTS
  Reports,     \* the tasks with what setLogPath itself has to say
  MaxCalls     \* bound: how often main calls setLogPath

ASSUME ReportsAssumption ==
  Reports \subseteq Tasks /\ IsFiniteSet(Reports) /\ Cardinality(Reports) + 1 >= 2 * MaxCalls
ASSUME MaxCallsAssumption == MaxCalls \in Nat

Null == 0
Files == 1..MaxCalls    \* one for each fopen

VARIABLES
  logFile,     \* _logFile
  fstate,      \* the FILEs: "none", then "open", then "closed"
  spc, calls,  \* where main is in setLogPath, and the calls that are through fopen
  tpc,         \* where the worker is in its task: "if", "stamp", "text", "print"
  file,        \* what has been written to each file
  early,       \* history: what had been added when the file was opened
  fault        \* history: a FILE has been used that is closed or null

logVars == <<logFile, fstate, spc, calls, tpc, file, early, fault>>
logFileVars == <<logFile, fstate, early, calls>>

LogInit ==
  /\ Init
  /\ logFile = Null   \* Instance() is static, so the member is zero at first
  /\ fstate = [f \in Files |-> "none"]
  /\ spc = "idle" /\ calls = 0
  /\ tpc = "if"
  /\ file = [f \in Files |-> <<>>]
  /\ early = {}
  /\ fault = FALSE

\* Info, from any thread.
Info(t) == addTask(t) /\ UNCHANGED logVars

-----------------------------------------------------------------------------
\* main: setLogPath.

Report == addTask(CHOOSE t \in Reports : t \notin added)

\* If there is a file, Info says so ...
SetLogPath ==
  /\ spc = "idle" /\ caller = "open"
  /\ calls < MaxCalls
  /\ IF logFile # Null THEN spc' = "fclose" /\ Report ELSE spc' = "fopen" /\ UNCHANGED vars
  /\ UNCHANGED <<logFileVars, tpc, file, fault>>

\* ... and it is closed ...
Fclose ==
  /\ spc = "fclose"
  /\ fstate' = [fstate EXCEPT ![logFile] = "closed"]
  /\ spc' = "null"
  /\ UNCHANGED <<vars, logFile, early, calls, tpc, file, fault>>

\* ... before _logFile is set to null.
SetNull ==
  /\ spc = "null"
  /\ logFile' = Null
  /\ spc' = "fopen"
  /\ UNCHANGED <<vars, fstate, early, calls, tpc, file, fault>>

\* fopen may fail.
Fopen ==
  /\ spc = "fopen"
  /\ calls' = calls + 1
  /\ \/ logFile' = calls' /\ fstate' = [fstate EXCEPT ![calls'] = "open"]
     \/ logFile' = Null /\ UNCHANGED fstate
  /\ early' = added
  /\ spc' = "report"
  /\ UNCHANGED <<vars, tpc, file, fault>>

\* Info tells how it went.
SetLogPathReturns ==
  /\ spc = "report"
  /\ Report
  /\ spc' = "idle"
  /\ UNCHANGED <<logFileVars, tpc, file, fault>>

\* ~CELLLog, after main.
LogClose == spc = "idle" /\ Close /\ UNCHANGED logVars

-----------------------------------------------------------------------------
\* The worker, with the task it has come to.

HasTask == IF pc = "run" THEN at <= Len(tasks) ELSE pc = "drain" /\ at <= Len(taskBuf)
Current == IF pc = "run" THEN tasks[at] ELSE taskBuf[at]

HasFile == logFile # Null

\* The test of _logFile.
TaskIf ==
  /\ HasTask /\ tpc = "if"
  /\ tpc' = IF HasFile THEN "stamp" ELSE "print"
  /\ UNCHANGED <<vars, logFileVars, spc, file, fault>>

\* fprintf to _logFile as it is now.  The tag "<Info>" and the time are one
\* stamp: the plain Info has only the time, and between the two fprintfs of
\* the other one, as between stamp and text, only a closing of the file counts.
Fprintf(part) ==
  IF logFile # Null /\ fstate[logFile] = "open"
  THEN file' = [file EXCEPT ![logFile] = Append(@, <<Current, part>>)] /\ UNCHANGED fault
  ELSE fault' = TRUE /\ UNCHANGED file

\* Mutant: only the first line of a file is stamped.
StampFirst ==
  /\ tpc = "stamp"
  /\ IF logFile # Null /\ file[logFile] # <<>>
     THEN UNCHANGED <<file, fault>>
     ELSE Fprintf("stamp")
  /\ tpc' = "text"
  /\ UNCHANGED <<vars, logFileVars, spc>>

TaskStamp ==
  /\ tpc = "stamp"
  /\ Fprintf("stamp")
  /\ tpc' = "text"
  /\ UNCHANGED <<vars, logFileVars, spc>>

\* The message, and fflush.
TaskText ==
  /\ tpc = "text"
  /\ Fprintf("text")
  /\ tpc' = "print"
  /\ UNCHANGED <<vars, logFileVars, spc>>

\* printf, and the worker goes on to its next task.
TaskPrint ==
  /\ tpc = "print"
  /\ RunOne \/ DrainOne
  /\ tpc' = "if"
  /\ UNCHANGED <<logFileVars, spc, file, fault>>

Task == TaskIf \/ TaskStamp \/ TaskText \/ TaskPrint

\* The worker between tasks.
Between == (Top \/ Move \/ Check \/ Clear \/ DrainEnd) /\ UNCHANGED logVars

setLogPath == SetLogPath \/ Fclose \/ SetNull \/ Fopen \/ SetLogPathReturns

LogEnds == CloseEnds /\ UNCHANGED logVars

LogNext ==
  \/ \E t \in Tasks \ Reports : Info(t)
  \/ setLogPath \/ Task \/ Between \/ LogClose \/ LogEnds

LogSpec ==
  /\ LogInit /\ [][LogNext]_<<vars, logVars>>
  /\ WF_<<vars, logVars>>(Task \/ Between) /\ WF_<<vars, logVars>>(LogEnds)

-----------------------------------------------------------------------------
LogTypeOK ==
  /\ TypeOK
  /\ logFile \in Files \union {Null}
  /\ fstate \in [Files -> {"none", "open", "closed"}]
  /\ spc \in {"idle", "fclose", "null", "fopen", "report"} /\ calls \in 0..MaxCalls
  /\ tpc \in {"if", "stamp", "text", "print"}
  /\ file \in [Files -> Seq(Tasks \X {"stamp", "text"})]
  /\ early \in SUBSET Tasks
  /\ fault \in BOOLEAN

\* No file has been closed, as main calls setLogPath once.
NeverClosed == \A f \in Files : fstate[f] # "closed"

\* The tasks that have run or, but for the rest of their line, are through.
log == IF tpc \in {"text", "print"} THEN Append(ran, Current) ELSE ran

\* The file has the lines of the log from first + 1 on and nothing else: each
\* a stamp and a text, but for the text that the worker is about to write.
LinesFrom(f, first) ==
  LET lines == Len(log) - first
  IN  /\ Len(file[f]) = 2 * lines - (IF tpc = "text" /\ f = logFile THEN 1 ELSE 0)
      /\ \A i \in 1..lines :
           /\ file[f][2 * i - 1] = <<log[first + i], "stamp">>
           /\ 2 * i <= Len(file[f]) => file[f][2 * i] = <<log[first + i], "text">>

\* Though the worker reads _logFile without a lock while main sets it, and fopen
\* may fail, it never uses a file that is null, and the file has a stamp and a
\* text for every task from the first one that found it open, in the order in
\* which they ran: as long as no file is closed.
LinesWhole ==
  NeverClosed => ~fault /\ \A f \in Files : \E first \in 0..Len(log) : LinesFrom(f, first)

\* What is logged after the file was opened and before the program ends is in
\* the file when Close returns, however late, and also when it never does
\* because it sleeps on after the worker is through.
NothingLost ==
  NeverClosed /\ caller \in {"closed", "lost"} /\ logFile # Null =>
    /\ due <= Len(ran)
    /\ \A i \in 1..due :
         ran[i] \in early \/ \E k \in DOMAIN file[logFile] : file[logFile][k] = <<ran[i], "text">>
=============================================================================
