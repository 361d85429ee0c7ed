---------------------------- MODULE Configuration ----------------------------
(***************************************************************************)
(* From the YAML files to what a session runs with: the includes of a test *)
(* definition (src/internal/config/test.go), the connection of an image    *)
(* (config/image.go), and the ports and transports made from it            *)
(* (workspace/context.go, qemu/config.go, cli/helpers.go).  Fields that    *)
(* are not given are "", 0 or <<>>, as in the code.                        *)
(***************************************************************************)
EXTENDS Naturals, Sequences, SequencesExt

---------------------------------------------------------------------------
(* Includes                                                                *)

\* A test definition; its arrays hold steps [action, timeout].  An include
\* is one too, or Unreadable.
Unreadable == [unreadable |-> TRUE]

\* A faulty variant: the first include that has a field wins.
PreferEarlier(merged, given, none) == IF merged = none THEN given ELSE merged

\* The last include that has a field wins.
Prefer(merged, given, none) == IF given = none THEN merged ELSE given

\* One round of the loop of processIncludes.
MergeInclude(m, inc) ==
  [preboot |-> Prefer(m.preboot, inc.preboot, <<>>),
   steps   |-> Prefer(m.steps, inc.steps, <<>>),
   panic   |-> Prefer(m.panic, inc.panic, <<>>),
   serial  |-> Prefer(m.serial, inc.serial, ""),
   args    |-> m.args \o inc.args]

\* The definition with its includes merged, or Unreadable.  name, description
\* and panic.action_delay of an include are dropped.
ProcessIncludes(main, includes) ==
  LET nothing == [preboot |-> <<>>, steps |-> <<>>, panic |-> <<>>,
                  serial |-> "", args |-> main.args]
      merged == FoldLeft(MergeInclude, nothing, includes)
      Own(field, none) == Prefer(merged[field], main[field], none)
  IN  IF \E i \in DOMAIN includes : includes[i] = Unreadable
      THEN Unreadable
      ELSE [main EXCEPT !.preboot = Own("preboot", <<>>),
                        !.steps = Own("steps", <<>>),
                        !.panic = Own("panic", <<>>),
                        !.serial = Own("serial", ""),
                        !.args = merged.args]

Complete(steps) == \A i \in DOMAIN steps : steps[i].action # ""
Timed(steps) == \A i \in DOMAIN steps : steps[i].timeout > 0

\* validate: preboot steps get thirty seconds where they have no timeout.
ValidTest(t) ==
  /\ t.name # "" /\ t.steps # <<>>
  /\ Complete(t.preboot)
  /\ Complete(t.steps) /\ Timed(t.steps)
  /\ Complete(t.panic) /\ Timed(t.panic)

WithDefaults(t) ==
  [t EXCEPT !.preboot = [i \in DOMAIN t.preboot |->
     IF t.preboot[i].timeout > 0 THEN t.preboot[i]
                                 ELSE [t.preboot[i] EXCEPT !.timeout = 30]]]

\* LoadTestConfig
LoadTest(main, includes) ==
  LET t == ProcessIncludes(main, includes) IN
  IF t = Unreadable THEN Unreadable
  ELSE IF ValidTest(t) THEN WithDefaults(t) ELSE Unreadable

---------------------------------------------------------------------------
(* The connection of an image                                              *)

Refused == [refused |-> TRUE]
Methods == {"ssh", "winrm"}

Uses(c, method) == method \in {c.exec, c.file}

DefaultMethods(c) ==
  LET exec == IF c.exec = "" THEN "ssh" ELSE c.exec IN
  [c EXCEPT !.exec = exec, !.file = IF c.file = "" THEN exec ELSE c.file]

\* A faulty variant: only the exec method decides which credentials it needs.
CredentialsOfExec(c) ==
  /\ c.user
  /\ c.exec = "ssh" => c.password \/ c.key
  /\ c.exec = "winrm" => c.password

\* SSH wants a password or a key, WinRM a password.
Credentials(c) ==
  /\ c.user
  /\ Uses(c, "ssh") => c.password \/ c.key
  /\ Uses(c, "winrm") => c.password

\* The deprecated port is that of the exec method.
Port(c, method, given, default) ==
  IF given > 0 THEN given
  ELSE IF given = 0 /\ c.exec = method /\ c.port > 0 THEN c.port ELSE default

\* ImageConfig.validate, as far as the connection goes.
LoadConnection(given) ==
  LET c == DefaultMethods(given) IN
  IF {c.exec, c.file} \subseteq Methods /\ Credentials(c)
  THEN [c EXCEPT !.ssh = Port(c, "ssh", c.ssh, 22),
                 !.winrm = Port(c, "winrm", c.winrm,
                                IF c.tls THEN 5986 ELSE 5985)]
  ELSE Refused

\* AllocateRuntimeResources gives a host port to each method in use, and
\* QEMU forwards those it knows both ends of.
Forwards(c) ==
  {[from |-> method, to |-> IF method = "ssh" THEN c.ssh ELSE c.winrm] :
     method \in {m \in Methods : Uses(c, m)}}

\* createGuestTransports: one transport, or one for commands and one for
\* files; each dials the host port of its method.
Transports(c) == {c.exec, c.file}

---------------------------------------------------------------------------
(* Properties of single inputs                                             *)

\* The last of a sequence of fields that is given.
LastGiven(fields, none) ==
  LET given == {i \in DOMAIN fields : fields[i] # none} IN
  IF given = {} THEN none
  ELSE fields[CHOOSE i \in given : \A j \in given : j <= i]

\* Steps as they are in a file, with thirty seconds for those without a
\* timeout.
TimedAsGiven(steps, given) ==
  /\ DOMAIN steps = DOMAIN given
  /\ \A i \in DOMAIN given :
       /\ steps[i].action = given[i].action
       /\ steps[i].timeout = IF given[i].timeout > 0 THEN given[i].timeout
                                                    ELSE 30

\* docs/test-definition.md has later includes win over earlier ones and the
\* main file over all: so it is with the three lists of steps and the serial
\* log.  It names extra_args under the same rule; there the code does
\* otherwise and appends those of all files, the main file's first.
MergedInOrder(main, includes) ==
  LET t == LoadTest(main, includes)
      all == Append(includes, main)
      Field(f) == [i \in DOMAIN all |-> all[i][f]]
  IN  t # Unreadable =>
        /\ Timed(t.preboot) /\ Timed(t.steps) /\ Timed(t.panic)
        /\ Len(t.steps) > 0
        /\ t.name = main.name /\ t.delay = main.delay
        /\ TimedAsGiven(t.preboot, LastGiven(Field("preboot"), <<>>))
        /\ t.steps = LastGiven(Field("steps"), <<>>)
        /\ t.panic = LastGiven(Field("panic"), <<>>)
        /\ t.serial = LastGiven(Field("serial"), "")
        /\ t.args = FlattenSeq(<<main.args>>
                               \o [i \in DOMAIN includes |-> includes[i].args])

\* Whatever connection passes validation, every transport of the guest has
\* what it needs to log in and a port of the host that QEMU forwards to a
\* port of the guest.
ReadyToConnect(given) ==
  LET c == LoadConnection(given) IN
  c # Refused =>
    \A method \in Transports(c) :
      /\ c.user /\ (c.password \/ (c.key /\ method = "ssh"))
      /\ \E f \in Forwards(c) : f.from = method /\ f.to > 0
=============================================================================
