--------------------------- MODULE LaunchOptions ---------------------------
(***************************************************************************)
(* What lroot makes of its command line, and how the binds among it reach  *)
(* the library: by the environment variable LITTLE_BINDS.                  *)
(*                                                                         *)
(* An argument is a sequence of fragments, as a path is.                   *)
(***************************************************************************)
EXTENDS PathTranslation

CONSTANTS
    Colon,       \* between the two paths of a bind
    Semicolon,   \* between two binds in LITTLE_BINDS
    Dashed,      \* the fragments that begin with a dash
    Shell        \* the command when none is given, /bin/sh

ASSUME OptionsAssumption ==
    /\ {Colon, Semicolon} \cup Dashed \subseteq Fragment
    /\ Colon # Semicolon
    /\ Shell \in Path

(***************************************************************************)
(* parse_args                                                              *)
(***************************************************************************)

\* The options with a value, and those without.
Valued == {"-r", "-q", "-k", "-i", "-w", "-b"}
Simple == {"-0", "-v"}

\* reading is what the next argument is taken for: an "option", the "value"
\* of the option pending, a "positional" one, a part of the "command" or
\* nothing any more, lroot having "quit".
NoArgs == [reading |-> "option", pending |-> "none", rootfs |-> <<>>, binds |-> <<>>,
           set |-> {}, command |-> <<>>]

\* The two paths of a bind: the same one twice if there is no colon.
BindOption(b) ==
    IF \E i \in DOMAIN b : b[i] = Colon
    THEN LET i == CHOOSE i \in DOMAIN b : b[i] = Colon /\ \A j \in 1..i - 1 : b[j] # Colon
         IN  [src |-> SubSeq(b, 1, i - 1), dst |-> Drop(b, i)]
    ELSE [src |-> b, dst |-> b]

\* A mutant of Positional: options are looked for in the command, too.
PositionalOnward(a, arg) ==
    IF a.rootfs = <<>> THEN [a EXCEPT !.rootfs = arg]
                       ELSE [a EXCEPT !.command = Append(@, arg)]

\* The first argument that is no option is the rootfs, if -r has not named
\* it; the next one begins the command.
Positional(a, arg) ==
    IF a.rootfs = <<>> THEN [a EXCEPT !.rootfs = arg]
                       ELSE [a EXCEPT !.command = <<arg>>, !.reading = "command"]

Value(a, arg) ==
    CASE a.pending = "-r" -> [a EXCEPT !.rootfs = arg, !.reading = "option"]
      [] a.pending = "-b" -> [a EXCEPT !.binds = Append(@, BindOption(arg)),
                                       !.reading = "option"]
      [] OTHER            -> [a EXCEPT !.set = {o \in @ : o[1] # a.pending} \cup {<<a.pending, arg>>},
                                       !.reading = "option"]

Option(a, arg) ==
    CASE arg = <<"--">>   -> [a EXCEPT !.reading = "positional"]
      [] Len(arg) = 1 /\ arg[1] \in Valued -> [a EXCEPT !.pending = arg[1], !.reading = "value"]
      [] Len(arg) = 1 /\ arg[1] \in Simple -> [a EXCEPT !.set = @ \cup {arg}]
      [] OTHER            -> [a EXCEPT !.reading = "quit"]

TakeArg(a, arg) ==
    CASE a.reading = "quit"    -> a
      [] a.reading = "command" -> [a EXCEPT !.command = Append(@, arg)]
      [] a.reading = "value"   -> Value(a, arg)
      [] a.reading = "option" /\ arg # <<>> /\ arg[1] \in Dashed -> Option(a, arg)
      [] OTHER                 -> Positional(a, arg)

\* How far parse_args is after each of the arguments.
Readings(args) ==
    LET after[n \in 0..Len(args)] ==
            IF n = 0 THEN NoArgs ELSE TakeArg(after[n - 1], args[n])
    IN  after

\* An option without its value and a command line without a rootfs are none.
ParseArgs(args) ==
    LET a == Readings(args)[Len(args)]
    IN  IF a.reading \in {"value", "quit"} \/ a.rootfs = <<>> THEN [a EXCEPT !.reading = "quit"]
        ELSE IF a.command = <<>> THEN [a EXCEPT !.command = <<Shell>>]
        ELSE a

(***************************************************************************)
(* LITTLE_BINDS                                                            *)
(***************************************************************************)

\* The binds, joined with semicolons.
Joined(binds) ==
    LET upTo[n \in DOMAIN binds] ==
            (IF n = 1 THEN <<>> ELSE upTo[n - 1] \o <<Semicolon>>)
                \o binds[n].src \o <<Colon>> \o binds[n].dst
    IN  upTo[Len(binds)]

\* What lroot puts into the environment; without binds the variable stays
\* what it was.
BindsVar(binds, inherited) == IF binds = <<>> THEN inherited ELSE Joined(binds)

HasColon(pair) == \E i \in DOMAIN pair : pair[i] = Colon

\* A mutant of WithPair: a pair is split at its last colon.
WithPairLastColon(binds, pair) ==
    IF ~HasColon(pair) THEN binds
    ELSE LET i == CHOOSE i \in DOMAIN pair :
                      pair[i] = Colon /\ \A j \in i + 1..Len(pair) : pair[j] # Colon
         IN  Append(binds, [src |-> SubSeq(pair, 1, i - 1), dst |-> Drop(pair, i)])

\* A pair without a colon is none; another one is split at its first colon.
WithPair(binds, pair) ==
    IF HasColon(pair) THEN Append(binds, BindOption(pair)) ELSE binds

\* A semicolon ends a pair.
TakeByte(r, byte) ==
    IF byte = Semicolon THEN [binds |-> WithPair(r.binds, r.pair), pair |-> <<>>]
                        ELSE [binds |-> r.binds, pair |-> Append(r.pair, byte)]

\* How far binds is after each byte of the variable.
BindReadings(s) ==
    LET after[n \in 0..Len(s)] ==
            IF n = 0 THEN [binds |-> <<>>, pair |-> <<>>] ELSE TakeByte(after[n - 1], s[n])
    IN  after

\* binds: the pairs of LITTLE_BINDS.
BindsOf(s) == LET r == BindReadings(s)[Len(s)] IN WithPair(r.binds, r.pair)

(***************************************************************************)
(* What the command line promises                                          *)
(***************************************************************************)

\* The command is what ends the command line, untouched, and what precedes
\* it alone decides the rest: no option of the command is taken for lroot's.
CommandIsRest(args) ==
    LET a == ParseArgs(args)
    IN  a.reading # "quit" =>
            \E n \in 0..Len(args) :
                LET b == ParseArgs(SubSeq(args, 1, n))
                IN  /\ a.command = IF n = Len(args) THEN <<Shell>> ELSE Drop(args, n)
                    /\ b.reading # "quit"
                    /\ <<b.rootfs, b.binds, b.set>> = <<a.rootfs, a.binds, a.set>>

\* Binds reach the library as they were given, in their order, unless one has
\* a semicolon in it; inherited ones do not get among them.
BindsArrive(options, inherited) ==
    (/\ options # <<>>
     /\ \A k \in DOMAIN options : \A i \in DOMAIN options[k] : options[k][i] # Semicolon) =>
        LET given == [k \in DOMAIN options |-> BindOption(options[k])]
        IN  BindsOf(BindsVar(given, inherited)) = given
=============================================================================
