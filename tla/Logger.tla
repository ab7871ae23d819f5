-------------------------------- MODULE Logger --------------------------------
(***************************************************************************)
(* Logger::log(), called by several threads.  The line is made, with its    *)
(* time, before mutex_ is taken; under it the line goes to std::cout in two *)
(* insertions and to the file, which is opened for every line and may fail *)
(* to open.  Threads that write to std::cout themselves (the listener of   *)
(* the demo) do not take mutex_ and are not modelled.                      *)
(***************************************************************************)
EXTENDS Naturals, Sequences

CONSTANTS
  Threads,   \* the threads that log
  NoThread,  \* nobody holds mutex_; not one of Threads
  MaxLines   \* bound on the lines of each thread

VARIABLES
  mutex,    \* the holder of mutex_
  at,       \* where each thread is in log()
  line,     \* the local variable line: a thread and the number of its call
  console,  \* std::cout: lines and line ends
  file,     \* the file at log_path_
  unopened  \* history: lines for which the file could not be opened

vars == <<mutex, at, line, console, file, unopened>>

LineEnd == <<NoThread, 0>>

Init ==
  /\ mutex = NoThread /\ at = [t \in Threads |-> "out"]
  /\ line = [t \in Threads |-> <<t, 0>>]
  /\ console = <<>> /\ file = <<>> /\ unopened = {}

Goto(t, from, to) == at[t] = from /\ at' = [at EXCEPT ![t] = to]

(* Up to the scoped_lock.  info(), warning() and the others only call log(). *)
MakeLine(t) ==
  /\ Goto(t, "out", "lock") /\ line[t][2] < MaxLines
  /\ line' = [line EXCEPT ![t][2] = @ + 1]
  /\ UNCHANGED <<mutex, console, file, unopened>>

Lock_NotTaken(t) ==
  Goto(t, "lock", "line") /\ UNCHANGED <<mutex, line, console, file, unopened>>

Lock(t) ==
  /\ Goto(t, "lock", "line") /\ mutex = NoThread /\ mutex' = t
  /\ UNCHANGED <<line, console, file, unopened>>

ToConsole(t, from, what, to) ==
  /\ Goto(t, from, to) /\ console' = Append(console, what)
  /\ UNCHANGED <<mutex, line, file, unopened>>

WriteConsole(t) == ToConsole(t, "line", line[t], "end") \/ ToConsole(t, "end", LineEnd, "open")

OpenFile(t) ==
  /\ \/ Goto(t, "open", "file") /\ UNCHANGED unopened
     \/ Goto(t, "open", "unlock") /\ unopened' = unopened \cup {line[t]}
  /\ UNCHANGED <<mutex, line, console, file>>

(* Both insertions sit in the stream's buffer until it is closed.          *)
WriteFile(t) ==
  /\ Goto(t, "file", "unlock") /\ file' = Append(file, line[t])
  /\ UNCHANGED <<mutex, line, console, unopened>>

Unlock(t) ==
  /\ Goto(t, "unlock", "out") /\ mutex' = NoThread
  /\ UNCHANGED <<line, console, file, unopened>>

Next == \E t \in Threads :
  MakeLine(t) \/ Lock(t) \/ WriteConsole(t) \/ OpenFile(t) \/ WriteFile(t) \/ Unlock(t)

Spec == Init /\ [][Next]_vars

-----------------------------------------------------------------------------
(* Every line on the console is ended before another Logger line begins,   *)
(* and whenever no thread is inside log() the file holds the console's     *)
(* lines in the console's order, each once, but for those it could not be  *)
(* opened for.                                                             *)
FileFollowsConsole ==
  /\ \A i \in DOMAIN console : (console[i] = LineEnd) = (i % 2 = 0)
  /\ mutex = NoThread =>
       LET written == {k \in DOMAIN console : console[k] # LineEnd /\ console[k] \notin unopened}
       IN /\ {file[i] : i \in DOMAIN file} = {console[k] : k \in written}
          /\ \A i, j \in DOMAIN file, k, l \in written :
               file[i] = console[k] /\ file[j] = console[l] => (i < j <=> k < l)
=============================================================================
