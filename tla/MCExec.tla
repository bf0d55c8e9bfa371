------------------------------- MODULE MCExec -------------------------------
(***************************************************************************)
(* A rootfs /r with a multi-call program b, as busybox is, its applets,    *)
(* and a program of each other sort, among them some of 32 bits, whose     *)
(* loader is z.  The host has a loader /g of the kind of the rootfs's      *)
(* /r/g, none of the kind of /r/musl, and other programs under some of the *)
(* guest's paths.                                                          *)
(***************************************************************************)
EXTENDS Exec

R(p)  == <<"/", "r">> \o p
P(x)  == <<"/", x>>

MCFragment == {"/", "r", "h", "k", "b", "ls", "a", "c", "d", "e", "s", "u", "m", "v",
               "p", "q", "x", "z", "n", "g", "musl", "proc", "sh", "-l", "w", "t", "y", "i"}
MCRootfs   == P("r")
MCHostDirs == {P("proc")}
MCBinds    == << [src |-> P("h"), dst |-> P("k")] >>

Musl(interp) == [kind |-> "elf", native |-> TRUE, class |-> 64, interp |-> interp,
                 setuid |-> FALSE, xbit |-> TRUE, multi |-> <<>>]
Static  == Musl(<<>>)
MCPrograms ==
    [box    |-> [Musl(P("musl")) EXCEPT !.multi = <<"b">>],
     app    |-> Musl(P("g")),
     wide   |-> [Musl(P("z")) EXCEPT !.class = 32],
     widest |-> [Static EXCEPT !.class = 32, !.setuid = TRUE],
     stat   |-> Static,
     noexec |-> [Static EXCEPT !.xbit = FALSE],
     suid   |-> [Musl(P("g")) EXCEPT !.setuid = TRUE],
     arm    |-> [Musl(P("g")) EXCEPT !.native = FALSE],
     script |-> [Musl(P("b")) EXCEPT !.kind = "script"],
     hostb  |-> Musl(P("g")),
     bound  |-> Musl(P("g")),
     own    |-> Musl(R(P("y"))),
     ldmusl |-> Static, ldg |-> Static, hostldg |-> Static,
     ldz |-> [Static EXCEPT !.class = 32], hostldz |-> [Static EXCEPT !.class = 32]]
MCFileId == DOMAIN MCPrograms \cup {"new"}

\* ls, e and q lead to b, the last two too far or by a path in host form; c
\* and d lead to one another; v leads to a by a relative link and x by one
\* that goes on absolutely; y leads the guest to a program and the host to the
\* interpreter it names; h/b leads to a program of the same name.
MCInitFS ==
    (R(P("b")) :> File("box") @@ R(P("ls")) :> Link(P("b")) @@
     R(P("e")) :> Link(P("p")) @@ R(P("p")) :> Link(P("w")) @@ R(P("w")) :> Link(P("ls")) @@
     R(P("q")) :> Link(R(P("b"))) @@
     R(P("c")) :> Link(P("d")) @@ R(P("d")) :> Link(P("c")) @@
     R(P("a")) :> File("app") @@ R(P("v")) :> Link(<<"a">>) @@ R(P("x")) :> Link(<<"ls">>) @@
     R(P("m")) :> File("arm") @@ R(P("s")) :> File("stat") @@ R(P("u")) :> File("suid") @@
     R(P("sh")) :> File("script") @@ R(P("t")) :> File("wide") @@
     R(P("n")) :> File("widest") @@ R(P("z")) :> File("ldz") @@ P("z") :> File("hostldz") @@
     R(P("y")) :> Link(P("i")) @@ R(P("i")) :> File("own") @@ P("i") :> File("hostldg") @@
     R(P("musl")) :> File("ldmusl") @@ R(P("g")) :> File("ldg") @@
     P("g") :> File("hostldg") @@ P("b") :> File("hostb") @@
     R(P("h") \o P("b")) :> Link(P("b")) @@ R(P("h") \o P("v")) :> Link(<<"b">>) @@
     P("h") \o P("c") \o P("b") :> Link(<<"a">>) @@ P("h") \o P("c") \o P("a") :> File("app") @@
     <<"/", "h", "/", "k">> :> File("bound") @@ P("k") :> Absent)
MCNames == DOMAIN MCInitFS
MCLibraries == {<<64, "glibc">>, <<64, "musl">>, <<32, "glibc">>}
MCGeneric   == <<>>
MCCwd       == P("h")
MCSearchDirs == << R(P("k")), P("r") >>

Whole == {"LD_PRELOAD", "LITTLE_ROOTFS", "PATH"}
Cmd(p, rest, opts) == [path |-> p, argv |-> <<p>> \o rest, options |-> opts]
Do(fn, p, args, env) == [fn |-> fn, path |-> p, argv |-> args, env |-> env, null |-> FALSE]
DoNull(p, args) == [fn |-> "execve", path |-> p, argv |-> args, env |-> {}, null |-> TRUE]
L == <<"-l">>

MCCommands == { Cmd(P("ls"), <<L>>, {}), Cmd(P("a"), <<L>>, {}), Cmd(<<"b">>, <<>>, {}),
                Cmd(P("s"), <<>>, {}), Cmd(P("k") \o P("k"), <<>>, {}), Cmd(P("v"), <<L>>, {}),
                Cmd(P("x"), <<>>, {}), Cmd(<<"a">>, <<L>>, {}), Cmd(P("t"), <<>>, {}),
                Cmd(P("h") \o P("b"), <<L>>, {}), Cmd(P("h") \o P("v"), <<L>>, {}),
                Cmd(<<"c">> \o P("b"), <<L>>, {}) }

Plain == { Do("execve", P(n), <<<<n>>, L>>, Whole) :
             n \in {"b", "ls", "e", "q", "c", "a", "v", "x", "m", "s", "u", "t", "n", "sh",
                     "proc", "y"} }
Others ==
    { Do("execve", P("b"), <<<<"ls">>, L>>, Whole),
      Do("execve", <<"k">>, <<<<"k">>>>, Whole),
      Do("execve", P("k") \o P("k"), <<<<"k">>>>, Whole),
      Do("execve", R(P("ls")), <<<<"ls">>, L>>, Whole),
      Do("execve", P("a"), <<<<"a">>, L>>, Whole \ {"LD_PRELOAD"}),
      Do("execve", P("a"), <<<<"a">>, L>>, Whole \ {"LITTLE_ROOTFS"}),
      Do("execve", P("ls"), <<<<"ls">>>>, Whole \ {"PATH"}),
      DoNull(P("ls"), <<<<"ls">>>>),
      Do("execveat", P("ls"), <<<<"ls">>, L>>, Whole),
      Do("execveat", <<"k">>, <<<<"k">>>>, Whole),
      Do("execvp", <<"a">>, <<<<"a">>>>, Whole),
      Do("execvp", <<"ls">>, <<<<"ls">>>>, Whole),
      Do("execvp", P("s"), <<<<"s">>>>, Whole),
      Do("execvp", P("k") \o P("k"), <<<<"k">>>>, Whole) }
MCExecCalls == Plain \cup Others

\* A foreign program, and lroot given a QEMU for it.
QemuCommands  == { Cmd(P("a"), <<>>, {"LITTLE_QEMU"}) }
QemuExecCalls == { Do("execve", P("m"), <<<<"m">>>>, Whole \cup {"LITTLE_QEMU"}) }

MCRelinks == { [at |-> R(P("ls")), node |-> Link(P("s"))],
               [at |-> R(P("b")),  node |-> File("noexec")],
               [at |-> R(P("a")),  node |-> Link(P("b"))],
               [at |-> R(P("v")),  node |-> Link(<<"u">>)],
               [at |-> R(P("w")),  node |-> Absent],
               [at |-> R(P("y")),  node |-> Link(P("s"))] }
=============================================================================
