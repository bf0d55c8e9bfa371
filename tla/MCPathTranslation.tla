------------------------- MODULE MCPathTranslation -------------------------
(***************************************************************************)
(* Translations on a rootfs, binds and host directories that get in one    *)
(* another's way.                                                          *)
(***************************************************************************)
EXTENDS Translations

MCDashed   == {"-r", "-b", "-v", "-l", "--"}
MCFragment == {"/", "r", "usr", "proc", "x", "k", " ", ":", ";"} \cup MCDashed
PathFragment == MCFragment \ MCDashed
MCShell    == <<"/", "k">>
MCArguments == {<<d>> : d \in MCDashed} \cup {<<"/", "r">>, <<"x", ":", "k">>, <<>>}
MCSlash    == "/"
MCRootfs   == TrimSlashes(<<"/", "r", "/", "/">>)
MCHostDirs == {<<"/", "proc">>}
MCMapped   == {<<"/", "usr">>}
\* A directory of the rootfs is bound to /x; the second bind can never be
\* reached, as the first has its destination, and the third neither; the
\* fourth begins below a directory that is translated itself.  BindsSettled
\* holds of them.
MCBinds    == << [src |-> <<"/", "r", "/", "k">>, dst |-> <<"/", "x">>],
                 [src |-> <<"/", "proc", "/", "k">>, dst |-> <<"/", "x">>],
                 [src |-> <<"/", "k">>, dst |-> <<"/", "proc", "/", "x">>],
                 [src |-> <<"/", "r", "/", "x">>, dst |-> <<"/", "usr", "/", "x">>] >>

\* What may follow a directory's name.
MCTails == {<<"/">>, <<"/", "x">>, <<"/", "proc">>, <<"/", "usr", "/", "x">>}

\* What may stand around a path in maps, and follow one in mountinfo.
MCBefore == {<<"r", " ">>, <<"/", "r", " ">>, <<"x", " ", " ">>}
MCAfter  == {<<>>, <<" ", "/", "r">>, <<" ", "/", "r", "/", "x">>, <<" ", " ", "r">>, <<"/", "r">>}

MCOtherBinds == {<<"x">>, <<":", "k">>, <<"x", ":", "k", ":">>}
MCInherited  == <<"usr", ":", "x">>
=============================================================================
