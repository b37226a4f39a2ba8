------------------------------- MODULE Settings -------------------------------
(***************************************************************************)
(* What a restart keeps: storage::init and provision_filesystem            *)
(* (kernel/src/storage/mod.rs), the start of the shell (load_saved_theme,  *)
(* run_autoexec) and the commands that keep a setting on the disk          *)
(* (hostname, color), over any number of power cycles.                     *)
(*                                                                         *)
(* The volume is a function from paths to contents.  Everything that       *)
(* writes it is a list of steps, todo, done one at a time; a step may be   *)
(* spoilt by a disk error, which nobody looks at, or by the loss of power. *)
(***************************************************************************)
EXTENDS Naturals, Sequences

CONSTANTS Hosts,     \* names a user gives to the machine
          Schemes,   \* colour schemes a user chooses
          MAX_COMMANDS, TROUBLES  \* bounds: commands; power losses and disk errors

VARIABLES
  volume,    \* "none", "unformatted" or "fat32"
  files,     \* what is on the volume; directories too
  pc,        \* how far the machine has come since power-on
  todo,      \* steps that remain of what it is doing
  script,    \* commands of autoexec.cfg that remain
  hostname,  \* HOSTNAME; "nul" is the seven zero bytes it starts with
  colours,   \* of the console
  cwd,
  chosen,    \* ghost: the host name and the scheme last asked for
  spoilt,    \* ghost: paths a fault or the user has taken away
  left       \* commands and troubles still to come
vars == <<volume, files, pc, todo, script, hostname, colours, cwd, chosen, spoilt, left>>

-----------------------------------------------------------------------------
(* Paths and contents                                                      *)

Config == <<"Windows", "System32", "Config">>
Home   == <<"Users", "Root">>
Marker      == Append(Config, "init.ok")
WindowsHost == Append(Config, "hostname.cfg")
WindowsAuto == Append(Config, "autoexec.cfg")
LegacyHost  == <<"system", "hostname.cfg">>
LegacyAuto  == <<"system", "autoexec.cfg">>
Theme       == <<"system", "theme.cfg">>
Autoexecs == {WindowsAuto, LegacyAuto}

\* One directory and one file stand for all those that nothing depends on.
Dirs == << <<"Windows">>, <<"Windows", "System32">>, Config, <<"Windows", "Logs">>,
           <<"Users">>, Home, <<"system">> >>

\* A script is its list of commands; of other files the text does not matter.
Files == << <<WindowsHost, "CantayaOS">>, <<WindowsAuto, << >> >>,
            <<LegacyHost, "CantayaOS">>, <<LegacyAuto, << >> >>,
            <<<<"Windows", "Logs", "boot.log">>, "text">> >>

\* The foreground and the background a scheme sets.
Colours(scheme) ==
  CASE scheme = "green" -> <<"green", "black">>
    [] scheme = "amber" -> <<"amber", "black">>
    [] scheme = "white" -> <<"white", "black">>
    [] scheme = "blue"  -> <<"white", "blue">>
    [] OTHER -> <<"white", "teal">>

-----------------------------------------------------------------------------
(* The volume.  Before it is mounted the VFS finds nothing and writes      *)
(* nothing.                                                                *)

Parent(p) == SubSeq(p, 1, Len(p) - 1)
exists(p) == p \in DOMAIN files
Reachable(f, p) ==
  volume = "fat32" /\ (Len(p) = 1 \/ Parent(p) \in DOMAIN f)
With(f, p, x) == [q \in DOMAIN f \cup {p} |-> IF q = p THEN x ELSE f[q]]

mkdir(p)    == [path |-> p, dir |-> TRUE]
write(p, x) == [path |-> p, dir |-> FALSE, data |-> x]

\* vfs::mkdir of a missing directory, vfs::write_file.
Done(f, s) ==
  IF ~Reachable(f, s.path) \/ (s.dir /\ s.path \in DOMAIN f) THEN f
  ELSE With(f, s.path, IF s.dir THEN "dir" ELSE s.data)

\* A spoilt step did nothing, or left an entry with other contents.
Torn(p) == IF p \in Autoexecs THEN {<< >>} ELSE {"torn", "empty"}
Spoilt(f, s) ==
  {f} \cup IF s.dir \/ ~Reachable(f, s.path) THEN {} ELSE {With(f, s.path, x) : x \in Torn(s.path)}

Paths(steps) == {steps[i].path : i \in DOMAIN steps}

-----------------------------------------------------------------------------
(* Power-on                                                                *)

\* Mutant: the marker is written before the files.
Provisioning_marker_first ==
  [i \in 1..3 |-> mkdir(Dirs[i])] \o <<write(Marker, "OK")>> \o
  [i \in 1 .. Len(Dirs) - 3 |-> mkdir(Dirs[i + 3])] \o
  [i \in DOMAIN Files |-> write(Files[i][1], Files[i][2])]

\* The marker is the last file written.
Provisioning ==
  [i \in DOMAIN Dirs |-> mkdir(Dirs[i])] \o
  [i \in DOMAIN Files |-> write(Files[i][1], Files[i][2])] \o
  <<write(Marker, "OK")>>

Copied(from, to) ==
  IF exists(from) /\ ~exists(to) THEN <<write(to, files[from])>> ELSE << >>
migrate_legacy_configs == Copied(LegacyHost, WindowsHost) \o Copied(LegacyAuto, WindowsAuto)

provision_filesystem == IF exists(Marker) THEN migrate_legacy_configs ELSE Provisioning

\* storage::init, from the block device to the file system.
init ==
  /\ pc = "off"
  /\ pc' = "theme"
  /\ todo' = IF volume = "fat32" THEN provision_filesystem ELSE << >>
  /\ hostname' = "nul" /\ colours' = Colours("default") /\ cwd' = << >>
  /\ UNCHANGED <<volume, files, script, chosen, spoilt, left>>

\* The head of todo succeeds; what it wrote is whole again.
Perform ==
  /\ todo # << >>
  /\ files' = Done(files, Head(todo))
  /\ spoilt' = IF Head(todo).path \in DOMAIN files' THEN spoilt \ {Head(todo).path}
               ELSE spoilt \cup {Head(todo).path}
  /\ todo' = Tail(todo)
  /\ UNCHANGED <<volume, pc, script, hostname, colours, cwd, chosen, left>>

\* It fails: nobody looks at what mkdir and write_file return.
Fault ==
  /\ todo # << >> /\ left.troubles > 0
  /\ files' \in Spoilt(files, Head(todo))
  /\ spoilt' = spoilt \cup {Head(todo).path}
  /\ todo' = Tail(todo)
  /\ left' = [left EXCEPT !.troubles = @ - 1]
  /\ UNCHANGED <<volume, pc, script, hostname, colours, cwd, chosen>>

\* The power goes, between two steps or during one.
PowerLoss ==
  /\ pc # "off" /\ left.troubles > 0
  /\ files' \in IF todo = << >> THEN {files}
                ELSE Spoilt(files, Head(todo)) \cup {Done(files, Head(todo))}
  /\ spoilt' = spoilt \cup Paths(todo)
  /\ pc' = "off" /\ todo' = << >> /\ script' = << >>
  /\ left' = [left EXCEPT !.troubles = @ - 1]
  /\ UNCHANGED <<volume, hostname, colours, cwd, chosen>>

-----------------------------------------------------------------------------
(* The start of the shell                                                  *)

load_saved_theme ==
  /\ pc = "theme" /\ todo = << >>
  /\ colours' = IF exists(Theme) /\ files[Theme] \in Schemes \cup {"default"}
                THEN Colours(files[Theme]) ELSE colours
  /\ pc' = "autoexec"
  /\ UNCHANGED <<volume, files, todo, script, hostname, cwd, chosen, spoilt, left>>

\* An empty host name is passed over, an empty script is not.
Named(p) == exists(p) /\ files[p] # "empty"

run_autoexec ==
  /\ pc = "autoexec"
  /\ hostname' = CASE Named(WindowsHost) -> files[WindowsHost]
                   [] ~Named(WindowsHost) /\ Named(LegacyHost) -> files[LegacyHost]
                   [] OTHER -> hostname
  /\ script' = CASE exists(WindowsAuto) -> files[WindowsAuto]
                 [] ~exists(WindowsAuto) /\ exists(LegacyAuto) -> files[LegacyAuto]
                 [] OTHER -> << >>
  /\ pc' = "script"
  /\ UNCHANGED <<volume, files, todo, colours, cwd, chosen, spoilt, left>>

-----------------------------------------------------------------------------
(* The commands                                                            *)

Saved(p, x) == IF volume = "none" THEN << >> ELSE <<mkdir(<<"system">>), write(p, x)>>

\* The reply in green leaves the text white.
cmd_hostname(name) ==
  /\ hostname' = name
  /\ todo' = Saved(LegacyHost, name)
  /\ colours' = <<"white", colours[2]>>
  /\ chosen' = [chosen EXCEPT !.host = name]
  /\ UNCHANGED <<files, spoilt>>

\* Mutant: the scheme is not saved.
cmd_color_unsaved(scheme) ==
  /\ colours' = Colours(scheme)
  /\ todo' = << >>
  /\ chosen' = [chosen EXCEPT !.scheme = scheme]
  /\ UNCHANGED <<files, hostname, spoilt>>

cmd_color(scheme) ==
  /\ colours' = Colours(scheme)
  /\ todo' = Saved(Theme, scheme)
  /\ chosen' = [chosen EXCEPT !.scheme = scheme]
  /\ UNCHANGED <<files, hostname, spoilt>>

\* rm, and edit of a start-up script.
cmd_rm(p) ==
  /\ exists(p)
  /\ files' = [q \in DOMAIN files \ {p} |-> files[q]]
  /\ spoilt' = spoilt \cup {p}
  /\ UNCHANGED <<todo, hostname, colours, chosen>>
SaveScript(p, line) ==
  /\ todo' = <<write(p, <<line>>)>>
  /\ UNCHANGED <<files, hostname, colours, chosen, spoilt>>

Lines == [cmd : {"hostname"}, arg : Hosts] \cup [cmd : {"color"}, arg : Schemes]
Execute(line) ==
  \/ line.cmd = "hostname" /\ cmd_hostname(line.arg)
  \/ line.cmd = "color" /\ cmd_color(line.arg)

Autoexec ==
  /\ pc = "script" /\ todo = << >>
  /\ IF script = << >>
     THEN /\ pc' = "shell" /\ script' = << >>
          /\ cwd' = IF exists(Home) THEN Home ELSE cwd
          /\ UNCHANGED <<files, todo, hostname, colours, chosen, spoilt>>
     ELSE /\ Execute(Head(script)) /\ script' = Tail(script)
          /\ UNCHANGED <<pc, cwd>>
  /\ UNCHANGED <<volume, left>>

Command ==
  /\ pc = "shell" /\ todo = << >> /\ left.commands > 0
  /\ \/ \E line \in Lines : Execute(line)
     \/ \E p \in Autoexecs \cup {WindowsHost, LegacyHost, Theme} : cmd_rm(p)
     \/ \E p \in Autoexecs, line \in Lines : exists(p) /\ SaveScript(p, line)
  /\ left' = [left EXCEPT !.commands = @ - 1]
  /\ UNCHANGED <<volume, pc, script, cwd>>

-----------------------------------------------------------------------------
\* A disk as it was formatted, or as a version without /Windows left it.
BlankDisk == [p \in {} |-> "dir"]
Legacy(host, scheme) ==
  [p \in {<<"system">>, LegacyHost, LegacyAuto, Theme} |->
     CASE p = LegacyHost -> host [] p = LegacyAuto -> << >> [] p = Theme -> scheme
       [] OTHER -> "dir"]

Init ==
  /\ volume \in {"none", "unformatted", "fat32"}
  /\ \/ files = BlankDisk /\ chosen = [host |-> "CantayaOS", scheme |-> "default"]
     \/ /\ volume = "fat32"
        /\ chosen \in [host : Hosts, scheme : Schemes]
        /\ files = Legacy(chosen.host, chosen.scheme)
  /\ pc = "off" /\ todo = << >> /\ script = << >>
  /\ hostname = "nul" /\ colours = Colours("default") /\ cwd = << >>
  /\ spoilt = {}
  /\ left = [commands |-> MAX_COMMANDS, troubles |-> TROUBLES]

Boot == init \/ Perform \/ load_saved_theme \/ run_autoexec \/ Autoexec
Next == Boot \/ Fault \/ PowerLoss \/ Command
Spec == Init /\ [][Next]_vars

-----------------------------------------------------------------------------
(* Properties                                                              *)

\* However often the power goes, a volume that carries init.ok has every
\* directory and file that provision_filesystem makes, but for those that a
\* disk error or the user took.
MarkerMeansProvisioned ==
  exists(Marker) => \A p \in Paths(Provisioning) : exists(p) \/ p \in spoilt

\* The colours the shell starts with are those of the scheme last chosen,
\* unless its file was spoilt or could not be written.
ThemeSurvives ==
  pc = "autoexec" /\ volume = "fat32" /\ Theme \notin spoilt
    => colours = Colours(chosen.scheme)

\* misc.rs says "Persist hostname", but a restart reads /Windows/System32/
\* Config/hostname.cfg first, and provisioning overwrites a legacy name.
HostnameSurvives ==
  pc \in {"script", "shell"} /\ volume = "fat32" /\ {WindowsHost, LegacyHost} \cap spoilt = {}
    => hostname = chosen.host

\* What a restart keeps, together.
RestartKeeps == MarkerMeansProvisioned /\ ThemeSurvives
=============================================================================
