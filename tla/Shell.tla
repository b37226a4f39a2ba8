-------------------------------- MODULE Shell --------------------------------
(***************************************************************************)
(* How the shell executes a line: expansion, chains, pipelines, redirection*)
(* and scripts (kernel/src/shell/mod.rs), the console's one capture buffer *)
(* (kernel/src/graphics/console.rs) and the commands that read and write   *)
(* files (kernel/src/shell/commands/fs.rs, misc.rs).                       *)
(*                                                                         *)
(* A text is a sequence of words and newlines.  A line as the parser sees  *)
(* it is a record: var (the variable it stands for, or ""), parts (the     *)
(* commands between semicolons, each with its redirection) and stages      *)
(* (what follows the first bar).  Meaning gives the line that a word of a  *)
(* script, a variable or an alias spells.                                  *)
(*                                                                         *)
(* Calls nest, so the activations are a stack, work, innermost first.      *)
(***************************************************************************)
EXTENDS Naturals, Sequences, SequencesExt, TLC

CONSTANTS Typed,    \* the lines a user types
          Meaning,  \* word -> line
          Comments, \* words that begin with # or REM
          InitialFiles,
          ROOM,     \* words and newlines that fit on the volume
          STEPS     \* bound: commands executed in a behaviour

VARIABLES
  files,    \* name -> text
  env,      \* variable -> word
  aliases,  \* name -> word
  active,   \* CAPTURE_ACTIVE
  buffer,   \* CAPTURE_BUFFER
  work,     \* the activations
  left      \* commands still to come
vars == <<files, env, aliases, active, buffer, work, left>>

NL == 0
Msg == 99  \* any of the shell's own messages
Message == <<Msg, NL>>

-----------------------------------------------------------------------------
(* Texts and the pipe commands                                             *)

\* str::lines
Lines(t) ==
  LET Read(acc, w) == IF w = NL THEN <<Append(acc[1], acc[2]), << >> >>
                      ELSE <<acc[1], Append(acc[2], w)>>
      r == FoldLeft(Read, << << >>, << >> >>, t)
  IN IF r[2] = << >> THEN r[1] ELSE Append(r[1], r[2])
Text(lines) == FlattenSeq([i \in DOMAIN lines |-> Append(lines[i], NL)])

Least(m, n) == IF m <= n THEN m ELSE n
Before(a, b) ==
  \E i \in 0 .. Len(a) :
    /\ i <= Len(b) /\ SubSeq(a, 1, i) = SubSeq(b, 1, i)
    /\ \/ i = Len(a) /\ i < Len(b)
       \/ i < Len(a) /\ i < Len(b) /\ a[i + 1] < b[i + 1]

pipe_grep(t, w) == Text(SelectSeq(Lines(t), LAMBDA l : w \in Range(l)))
pipe_head(t, n) == Text(SubSeq(Lines(t), 1, Least(n, Len(Lines(t)))))
pipe_tail(t, n) == Text(SubSeq(Lines(t), Len(Lines(t)) - Least(n, Len(Lines(t))) + 1, Len(Lines(t))))
pipe_sort(t) == Text(SortSeq(Lines(t), Before))
pipe_uniq(t) ==
  LET ls == Lines(t) IN
  FlattenSeq([i \in DOMAIN ls |-> IF i > 1 /\ ls[i - 1] = ls[i] THEN << >> ELSE Append(ls[i], NL)])

pipe_wc == Message

\* Texts shorter than a page: the prompt between pages never appears.
pipe_more(t) == Text(Lines(t))

\* One stage of a pipeline: what it passes on, and what it shows itself.
Stage(acc, s) ==
  LET Pass(t) == [acc EXCEPT !.data = t] IN
  CASE s.name = "grep" -> Pass(pipe_grep(acc.data, s.word))
    [] s.name = "head" -> Pass(pipe_head(acc.data, s.word))
    [] s.name = "tail" -> Pass(pipe_tail(acc.data, s.word))
    [] s.name = "wc"   -> Pass(pipe_wc)
    [] s.name = "sort" -> Pass(pipe_sort(acc.data))
    [] s.name = "uniq" -> Pass(pipe_uniq(acc.data))
    [] s.name = "more" -> [data |-> << >>, shown |-> acc.shown \o pipe_more(acc.data)]
    [] OTHER           -> [data |-> << >>, shown |-> acc.shown \o acc.data]

-----------------------------------------------------------------------------
(* Files, as the VFS gives them                                            *)

With(fs, f, t) == [g \in DOMAIN fs \cup {f} |-> IF g = f THEN t ELSE fs[g]]
Without(fs, f) == [g \in DOMAIN fs \ {f} |-> fs[g]]
Size(fs) == FoldSet(LAMBDA f, n : n + Len(fs[f]), 0, DOMAIN fs)

\* On a full volume the entry is made, empty, and the answer is still true.
Fits(f, t) == Size(Without(files, f)) + Len(t) <= ROOM
write_file(f, t) == files' = With(files, f, IF Fits(f, t) THEN t ELSE << >>)
read_file(f) == IF f \in DOMAIN files THEN files[f] ELSE << >>

-----------------------------------------------------------------------------
(* Activations and the capture                                             *)

\* seen and nested are ghosts: what was printed since a capture began, and
\* whether another one began inside it.
Frame(do, arg) == [do |-> do, arg |-> arg, seen |-> << >>, nested |-> FALSE]
Captures(f) == f.do \in {"redirect", "pipe"}
Printed(frames, t) ==
  [i \in DOMAIN frames |->
     IF Captures(frames[i]) THEN [frames[i] EXCEPT !.seen = @ \o t] ELSE frames[i]]
Nested(frames) ==
  [i \in DOMAIN frames |->
     IF Captures(frames[i]) THEN [frames[i] EXCEPT !.nested = TRUE] ELSE frames[i]]

Top(do) == work # << >> /\ Head(work).do = do
Arg == Head(work).arg

\* console::print of t, after which the frames given come first.
Say(t, frames) ==
  /\ buffer' = IF active THEN buffer \o t ELSE buffer
  /\ work' = frames \o Printed(Tail(work), t)

\* Mutant: the buffer is not cleared.
start_capture_kept(frames) ==
  /\ buffer' = buffer /\ active' = TRUE
  /\ work' = frames \o Nested(Tail(work))

start_capture(frames) ==
  /\ buffer' = << >> /\ active' = TRUE
  /\ work' = frames \o Nested(Tail(work))

-----------------------------------------------------------------------------
(* Lines                                                                   *)

\* Enter at the prompt.
ReadLine(line) ==
  /\ work = << >> /\ left > 0
  /\ work' = <<Frame("command", line)>>
  /\ UNCHANGED <<files, env, aliases, active, buffer, left>>

\* expand_variables comes before anything else, so that a variable may hold
\* a chain or a pipeline; an unknown one stays, and is no command.
Unknown == [var |-> "", parts |-> <<[cmd |-> [name |-> "x"], to |-> "", add |-> FALSE]>>,
            stages |-> << >>]
expand_variables(line) ==
  CASE line.var = "" -> line
    [] line.var \in DOMAIN env -> Meaning[env[line.var]]
    [] OTHER -> Unknown

execute_command ==
  /\ Top("command")
  /\ \E line \in {expand_variables(Arg)} :
       IF line.stages # << >>
       THEN start_capture(<<Frame("single", line.parts[1].cmd), Frame("pipe", line.stages)>>)
       ELSE /\ work' = [i \in DOMAIN line.parts |-> Frame("part", line.parts[i])] \o Tail(work)
            /\ UNCHANGED <<active, buffer>>
  /\ UNCHANGED <<files, env, aliases, left>>

execute_with_redirect ==
  /\ Top("part")
  /\ IF Arg.to = ""
     THEN work' = <<Frame("single", Arg.cmd)>> \o Tail(work) /\ UNCHANGED <<active, buffer>>
     ELSE start_capture(<<Frame("single", Arg.cmd), Frame("redirect", Arg)>>)
  /\ UNCHANGED <<files, env, aliases, left>>

\* Mutant: append overwrites the file too.
Redirected_overwrites ==
  /\ Top("redirect")
  /\ write_file(Arg.to, buffer)
  /\ active' = FALSE /\ buffer' = << >> /\ work' = Tail(work)
  /\ UNCHANGED <<env, aliases, left>>

\* The rest of execute_with_redirect: stop_capture, then the file.
Redirected ==
  /\ Top("redirect")
  /\ write_file(Arg.to, IF Arg.add THEN read_file(Arg.to) \o buffer ELSE buffer)
  /\ active' = FALSE /\ buffer' = << >> /\ work' = Tail(work)
  /\ UNCHANGED <<env, aliases, left>>

\* The rest of execute_pipeline: stop_capture, the stages, what is left of it.
execute_pipeline ==
  /\ Top("pipe")
  /\ active' = FALSE /\ buffer' = << >>
  /\ \E r \in {FoldLeft(Stage, [data |-> buffer, shown |-> << >>], Arg)} :
       work' = Printed(Tail(work), r.shown \o r.data)
  /\ UNCHANGED <<files, env, aliases, left>>

-----------------------------------------------------------------------------
(* Commands                                                                *)

\* A command that only prints; reading a file it may find that there is none.
Shows(t) == Say(t, << >>) /\ UNCHANGED <<files, env, aliases>>
IfRead(c, t) == IF c.file \in DOMAIN files THEN t ELSE Message

cmd_echo(c) == c.name = "echo" /\ Shows(<<c.word, NL>>)
cmd_cat(c) ==
  /\ c.name = "cat"
  /\ Shows(IF read_file(c.file) = << >> THEN Message ELSE Append(files[c.file], NL))
cmd_head(c) == c.name = "head" /\ Shows(IfRead(c, pipe_head(read_file(c.file), c.word)))
cmd_tail(c) == c.name = "tail" /\ Shows(IfRead(c, pipe_tail(read_file(c.file), c.word)))
cmd_wc(c) == c.name = "wc" /\ Shows(Message)
\* The lines that match, numbered, and how many there are.
cmd_grep(c) ==
  LET found == SelectSeq(Lines(read_file(c.file)), LAMBDA l : c.word \in Range(l)) IN
  /\ c.name = "grep"
  /\ Shows(IF found = << >> THEN Message
           ELSE FlattenSeq([i \in DOMAIN found |-> <<Msg>> \o found[i] \o <<NL>>])
                \o <<NL>> \o Message)
cmd_sort(c) == c.name = "sort" /\ Shows(IfRead(c, pipe_sort(read_file(c.file))))
cmd_uniq(c) == c.name = "uniq" /\ Shows(IfRead(c, pipe_uniq(read_file(c.file))))
cmd_more(c) == c.name = "more" /\ Shows(IfRead(c, pipe_more(read_file(c.file))))
Unrecognised(c) == c.name = "x" /\ c.name \notin DOMAIN aliases /\ Shows(Message)

cmd_write(c) ==
  /\ c.name = "write" /\ write_file(c.file, <<c.word>>)
  /\ Say(Message, << >>) /\ UNCHANGED <<env, aliases>>
cmd_append(c) ==
  /\ c.name = "append" /\ write_file(c.file, read_file(c.file) \o <<c.word, NL>>)
  /\ Say(Message, << >>) /\ UNCHANGED <<env, aliases>>
cmd_touch(c) ==
  /\ c.name = "touch"
  /\ IF c.file \in DOMAIN files THEN files' = files ELSE write_file(c.file, << >>)
  /\ Say(Message, << >>) /\ UNCHANGED <<env, aliases>>
cmd_rm(c) ==
  /\ c.name = "rm" /\ files' = Without(files, c.file)
  /\ Say(Message, << >>) /\ UNCHANGED <<env, aliases>>
cmd_cp(c) ==
  /\ c.name = "cp"
  /\ IF c.file \in DOMAIN files THEN write_file(c.to, files[c.file]) ELSE files' = files
  /\ Say(Message, << >>) /\ UNCHANGED <<env, aliases>>

\* vfs::copy_file, then vfs::delete of the source.
Copied(c) == With(files, c.to, IF Fits(c.to, files[c.file]) THEN files[c.file] ELSE << >>)
cmd_rename(c) ==
  /\ c.name = "rename"
  /\ files' = IF c.file \in DOMAIN files THEN Without(Copied(c), c.file) ELSE files
  /\ Say(Message, << >>) /\ UNCHANGED <<env, aliases>>

cmd_env(c) ==
  /\ c.name = "set" /\ env' = With(env, c.key, c.word)
  /\ Say(Message, << >>) /\ UNCHANGED <<files, aliases>>
cmd_unset(c) ==
  /\ c.name = "unset" /\ env' = Without(env, c.key)
  /\ Say(Message, << >>) /\ UNCHANGED <<files, aliases>>
cmd_alias(c) ==
  /\ c.name = "alias" /\ aliases' = With(aliases, c.key, c.word)
  /\ Say(Message, << >>) /\ UNCHANGED <<files, env>>
cmd_unalias(c) ==
  /\ c.name = "unalias" /\ aliases' = Without(aliases, c.key)
  /\ Say(Message, << >>) /\ UNCHANGED <<files, env>>

\* Each line of a script is a command of its own, unless it is empty or a comment.
Commands(t) == LET ls == SelectSeq(Lines(t), LAMBDA l : l # << >> /\ l[1] \notin Comments) IN
  [i \in DOMAIN ls |->
     Frame("command", IF Len(ls[i]) = 1 /\ ls[i][1] \in DOMAIN Meaning THEN Meaning[ls[i][1]]
                      ELSE Unknown)]
cmd_run(c) ==
  /\ c.name = "run"
  /\ Say(Message, Commands(read_file(c.file)))
  /\ UNCHANGED <<files, env, aliases>>

cmd_time(c) ==
  /\ c.name = "time"
  /\ work' = <<Frame("command", Meaning[c.word]), Frame("timed", c)>> \o Tail(work)
  /\ UNCHANGED <<files, env, aliases, buffer>>
Timed ==
  /\ Top("timed")
  /\ Say(Message, << >>)
  /\ UNCHANGED <<files, env, aliases, active, left>>

\* An alias stands for one command; what looks like a redirection in it is
\* part of that command's arguments.
Alias(c) ==
  /\ c.name \in DOMAIN aliases
  /\ work' = <<Frame("single", Meaning[aliases[c.name]].parts[1].cmd)>> \o Tail(work)
  /\ UNCHANGED <<files, env, aliases, buffer>>

execute_single_command ==
  /\ Top("single") /\ left > 0
  /\ \/ cmd_echo(Arg) \/ cmd_cat(Arg) \/ cmd_head(Arg) \/ cmd_tail(Arg) \/ cmd_wc(Arg)
     \/ cmd_grep(Arg) \/ cmd_sort(Arg) \/ cmd_uniq(Arg) \/ cmd_more(Arg) \/ Unrecognised(Arg)
     \/ cmd_write(Arg) \/ cmd_append(Arg) \/ cmd_touch(Arg) \/ cmd_rm(Arg)
     \/ cmd_cp(Arg) \/ cmd_rename(Arg) \/ cmd_env(Arg) \/ cmd_unset(Arg) \/ cmd_alias(Arg)
     \/ cmd_unalias(Arg) \/ cmd_run(Arg) \/ cmd_time(Arg) \/ Alias(Arg)
  /\ left' = left - 1
  /\ UNCHANGED active

-----------------------------------------------------------------------------
Init ==
  /\ files \in InitialFiles
  /\ env = [k \in {} |-> Msg] /\ aliases = [k \in {} |-> Msg]
  /\ active = FALSE /\ buffer = << >> /\ work = << >> /\ left = STEPS

Next ==
  \/ \E line \in Typed : ReadLine(line)
  \/ execute_command \/ execute_with_redirect \/ Redirected \/ execute_pipeline
  \/ execute_single_command \/ Timed
Spec == Init /\ [][Next]_vars

-----------------------------------------------------------------------------
(* Properties                                                              *)

\* The innermost capture holds what was printed since it began.  Once a
\* capture has come and gone inside it, it holds nothing: there is one
\* buffer.  At the prompt nothing is captured.
CaptureExact ==
  LET open == {i \in DOMAIN work : Captures(work[i])} IN
  IF open = {} THEN ~active /\ buffer = << >>
  ELSE \E i \in open :
         /\ \A j \in open : i <= j
         /\ IF work[i].nested THEN ~active /\ buffer = << >>
            ELSE active /\ buffer = work[i].seen

\* The activation at the top may rewrite or remove file f for good.
Overwrites(top, f) ==
  \/ top.do = "redirect" /\ top.arg.to = f /\ ~top.arg.add
  \/ /\ top.do = "single"
     /\ \/ top.arg.name \in {"write", "rm"} /\ top.arg.file = f
        \/ top.arg.name \in {"cp", "rename"} /\ top.arg.to = f

\* What it writes does not fit.
Full(top) ==
  \/ top.do = "redirect" /\ ~Fits(top.arg.to, read_file(top.arg.to) \o buffer)
  \/ /\ top.do = "single"
     /\ \/ top.arg.name = "append" /\ ~Fits(top.arg.file, Append(read_file(top.arg.file), 1) \o <<NL>>)
        \/ top.arg.name \in {"cp", "rename"} /\ ~Fits(top.arg.to, read_file(top.arg.file))

\* A text leaves the volume only when its file is removed or written over, or
\* when the volume is full: appending keeps what was there, and renaming moves
\* it.
TextKeptStep ==
  \A f \in DOMAIN files :
    \/ work = << >> \/ Overwrites(Head(work), f)
    \/ \E g \in DOMAIN files' : IsPrefix(files[f], files'[g])
    \/ Full(Head(work))
TextKept == [][TextKeptStep]_files

\* The help says "cmd > file       Redirect output to file".  Not so when the
\* command is a script, or time, that redirects or pipes in its turn.
RedirectComplete == Top("redirect") => buffer = Head(work).seen

\* The help says "rename <s> <d>   Rename/move a file", but a file renamed
\* to its own name is deleted, and on a full volume its text is lost.
RenameKeepsTextStep ==
  Top("single") /\ Arg.name = "rename" /\ Arg.file \in DOMAIN files
      => \E g \in DOMAIN files' : files'[g] = files[Arg.file]
RenameKeepsText == [][RenameKeepsTextStep]_files
=============================================================================
