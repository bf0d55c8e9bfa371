---------------------------- MODULE HooksProofs ----------------------------
(***************************************************************************)
(* Theorems about Hooks, for any number of threads, any set of calls, any  *)
(* nesting of signal handlers, any rootfs, binds and buffer size.          *)
(*                                                                         *)
(* In this order: the variables keep their types; no hook overwrites a     *)
(* text another one still needs, so that every call takes effect at once   *)
(* and on its own arguments; from where the guest is, such calls lead only *)
(* to where it belongs; and they do what RootView says the guest meant.    *)
(***************************************************************************)
EXTENDS Hooks, PathTranslationProofs

(***************************************************************************)
(* The file system                                                         *)
(***************************************************************************)

\* An answer leaves a file system and names a directory, if any, of Names.
Sound(ans) == ans.fs \in [Names -> Node] /\ ans.dir \in Path

LEMMA AnswerSound ==
    ASSUME NEW f \in [Names -> Node], NEW r
    PROVE  Sound(Answer(f, r))
BY EmptySeq DEF Answer, Sound, Path

LEMMA NodeTyped ==
    /\ Absent \in Node /\ Dir \in Node
    /\ File(NewFile) \in Node
    /\ \A t \in Path : Link(t) \in Node
<1>1. Absent \in Node /\ Dir \in Node
    BY Zenon DEF Node
<1>2. File(NewFile) \in Node
    <2>1. [kind |-> "file", id |-> NewFile] \in [kind : {"file"}, id : FileId]
        BY KernelAssumption
    <2>2. QED BY <2>1, Zenon DEF File, Node
<1>3. ASSUME NEW t \in Path
      PROVE  Link(t) \in Node
    <2>1. [kind |-> "link", text |-> t] \in [kind : {"link"}, text : Path]
        OBVIOUS
    <2>2. QED BY <2>1, Zenon DEF Link, Node
<1>4. QED BY <1>1, <1>2, <1>3

\* A path with something at it is a path of the file system.
LEMMA PresentIsNamed ==
    ASSUME NEW f, NEW p, At(f, p).kind # "none"
    PROVE  p \in Names /\ At(f, p) = f[p]
BY DEF At, Absent

LEMMA LookupSound ==
    ASSUME NEW f \in [Names -> Node], NEW w, NEW Text(_)
    PROVE  Sound(Lookup(f, w, Text))
BY AnswerSound DEF Lookup

LEMMA PerformSound ==
    ASSUME NEW sys \in KernelCalls, NEW f \in [Names -> Node],
           NEW raw, NEW w, NEW Text(_),
           sys = "symlink" => raw[1] \in Path
    PROVE  Sound(Perform(sys, f, raw, w, Text))
<1>1. CASE sys \in {"open", "lookup"}
    BY <1>1, LookupSound DEF Perform
<1>2. CASE sys = "nofollow"
    BY <1>2, AnswerSound DEF Perform, LookupNoFollow
<1>3. CASE sys = "create"
    <2> DEFINE p == Follow(f, w[1], Text)
    <2>1. [f EXCEPT ![p] = File(NewFile)] \in [Names -> Node]
        BY NodeTyped
    <2>2. Sound(Create(f, w, Text))
        BY <2>1, AnswerSound, LookupSound DEF Create
    <2>3. QED BY <1>3, <2>2 DEF Perform
<1>4. CASE sys = "mkdir"
    <2>1. [f EXCEPT ![w[1]] = Dir] \in [Names -> Node]
        BY NodeTyped
    <2>2. Sound(Mkdir(f, w))
        BY <2>1, AnswerSound DEF Mkdir
    <2>3. QED BY <1>4, <2>2 DEF Perform
<1>5. CASE sys = "remove"
    <2>1. [f EXCEPT ![w[1]] = Absent] \in [Names -> Node]
        BY NodeTyped
    <2>2. Sound(Unlink(f, w))
        BY <2>1, AnswerSound DEF Unlink
    <2>3. QED BY <1>5, <2>2 DEF Perform
<1>6. CASE sys = "rename"
    <2>1. At(f, w[1]).kind # "none" =>
            [f EXCEPT ![w[1]] = Absent, ![w[2]] = f[w[1]]] \in [Names -> Node]
        BY NodeTyped, PresentIsNamed
    <2>2. Sound(Rename(f, w))
        BY <2>1, AnswerSound DEF Rename
    <2>3. QED BY <1>6, <2>2 DEF Perform
<1>7. CASE sys = "link"
    <2>1. At(f, w[1]).kind # "none" =>
            [f EXCEPT ![w[2]] = f[w[1]]] \in [Names -> Node]
        BY PresentIsNamed
    <2>2. Sound(HardLink(f, w))
        BY <2>1, AnswerSound DEF HardLink
    <2>3. QED BY <1>7, <2>2 DEF Perform
<1>8. CASE sys = "symlink"
    <2>1. [f EXCEPT ![w[2]] = Link(raw[1])] \in [Names -> Node]
        BY <1>8, NodeTyped
    <2>2. Sound(SymLink(f, raw[1], w))
        BY <2>1, AnswerSound DEF SymLink
    <2>3. QED BY <1>8, <2>2 DEF Perform
<1>9. CASE sys = "readlink"
    <2>1. Sound(ReadLink(f, w))
        BY AnswerSound DEF ReadLink
    <2>2. QED BY <1>9, <2>1 DEF Perform
<1>10. CASE sys \in {"chdir", "opendir"}
    <2> DEFINE p == Follow(f, w[1], Text)
    <2>1. At(f, p) = Dir => p \in Path
        BY PresentIsNamed, HooksAssumption DEF Dir
    <2>2. Sound(OpenDir(f, w, Text))
        BY <2>1, AnswerSound DEF OpenDir, Sound
    <2>3. QED BY <1>10, <2>2 DEF Perform
<1>11. QED BY <1>1, <1>2, <1>3, <1>4, <1>5, <1>6, <1>7, <1>8, <1>9, <1>10
           DEF KernelCalls

(***************************************************************************)
(* Activations                                                             *)
(***************************************************************************)

\* The activation that runs, when there is one.
LEMMA TopTyped ==
    ASSUME TypeOK, NEW t \in Threads, depth[t] > 0
    PROVE  /\ depth[t] \in 1..MaxDepth
           /\ Top(t) \in Activation
           /\ Top(t).call \in AllCalls
           /\ Top(t).ptr \in Seq(Pointer)
           /\ Top(t).copying \in BOOLEAN
           /\ Top(t).call.args \in Seq(Path)
           /\ Len(Top(t).ptr) \in Nat
           /\ Len(Top(t).call.args) \in Nat
           /\ Len(Top(t).ptr) <= Len(Top(t).call.args)
           /\ Top(t).copying => Len(Top(t).ptr) > 0
<1>1. depth[t] \in 1..MaxDepth /\ depth[t] \in 1..depth[t]
    BY HooksAssumption DEF TypeOK
<1>2. Top(t) \in Activation
    BY <1>1 DEF TypeOK, Top
<1>3. /\ Top(t).call \in AllCalls
      /\ Len(Top(t).ptr) <= Len(Top(t).call.args)
      /\ Top(t).copying => Len(Top(t).ptr) > 0
    BY <1>1 DEF TypeOK, Top
<1>4. Top(t).ptr \in Seq(Pointer) /\ Top(t).copying \in BOOLEAN
    BY <1>2 DEF Activation
<1>5. Top(t).call.args \in Seq(Path)
    BY <1>3, HooksAssumption
<1>6. QED BY <1>1, <1>2, <1>3, <1>4, <1>5, LenProperties

\* Replacing one activation leaves the others.
LEMMA Replaced ==
    ASSUME act \in [Threads -> [1..MaxDepth -> Activation]],
           NEW t \in Threads, NEW n \in 1..MaxDepth, NEW a \in Activation,
           act' = [act EXCEPT ![t][n] = a]
    PROVE  /\ act' \in [Threads -> [1..MaxDepth -> Activation]]
           /\ \A u \in Threads : \A d \in 1..MaxDepth :
                act'[u][d] = IF u = t /\ d = n THEN a ELSE act[u][d]
OBVIOUS

\* A hook prepares one or two arguments, and translates only the last one
\* without saving it.
LEMMA ModesShape ==
    ASSUME NEW c
    PROVE  /\ Len(Modes(c)) \in {1, 2}
           /\ \A i \in 1..Len(Modes(c)) :
                /\ Modes(c)[i] \in {"raw", "save", "translate"}
                /\ Modes(c)[i] = "translate" => i = Len(Modes(c))
<1> DEFINE Shape(m) == /\ Len(m) \in {1, 2}
                       /\ \A i \in 1..Len(m) :
                            /\ m[i] \in {"raw", "save", "translate"}
                            /\ m[i] = "translate" => i = Len(m)
<1>1. Shape(<<"save", "translate">>)
    OBVIOUS
<1>2. Shape(<<"raw", "translate">>)
    OBVIOUS
<1>3. Shape(<<"raw">>)
    OBVIOUS
<1>4. Shape(<<"translate">>)
    OBVIOUS
<1>5. \/ Modes(c) = <<"save", "translate">> \/ Modes(c) = <<"raw", "translate">>
      \/ Modes(c) = <<"raw">> \/ Modes(c) = <<"translate">>
    BY DEF Modes
<1> HIDE DEF Shape
<1>6. Shape(Modes(c))
    BY <1>1, <1>2, <1>3, <1>4, <1>5
<1>7. QED BY <1>6 DEF Shape

\* The text behind a pointer is a path.
LEMMA DerefTyped ==
    ASSUME TypeOK, NEW t \in Threads, NEW p \in Pointer
    PROVE  Deref(tlbuf[t], p) \in Path
BY DEF TypeOK, Pointer, Deref

\* The activation in which one more argument is prepared.
LEMMA Appended ==
    ASSUME NEW c \in AllCalls, NEW s \in Seq(Pointer), NEW p \in Pointer,
           NEW b \in BOOLEAN
    PROVE  /\ [call |-> c, ptr |-> Append(s, p), copying |-> b] \in Activation
           /\ Len(Append(s, p)) = Len(s) + 1
           /\ \A i \in 1..Len(s) : Append(s, p)[i] = s[i]
           /\ Append(s, p)[Len(s) + 1] = p
<1>1. /\ Append(s, p) \in Seq(Pointer)
      /\ Len(Append(s, p)) = Len(s) + 1
      /\ \A i \in 1..Len(s) : Append(s, p)[i] = s[i]
      /\ Append(s, p)[Len(s) + 1] = p
    BY AppendProperties
<1>2. QED BY <1>1 DEF Activation

LEMMA IdleTyped == Idle \in Activation
BY EmptySeq DEF Idle, Activation

\* What TranslateArg appends, given the argument.
TranslatedPointer(p) ==
    [place |-> Translate(p).place,
     path  |-> IF Translate(p).place = "tlbuf" THEN <<>> ELSE Translate(p).path]

LEMMA TranslatedPointerTyped ==
    ASSUME NEW p \in Path
    PROVE  /\ TranslatedPointer(p) \in Pointer
           /\ Translate(p).place = "tlbuf" => Len(Translate(p).path) < BufLen
<1>1. /\ Translate(p).path \in Path
      /\ Translate(p).place \in {"caller", "tlbuf"}
      /\ <<>> \in Path
    BY TranslateTyped, EmptySeq DEF Path
<1>2. TranslatedPointer(p) \in Pointer
    BY <1>1 DEF TranslatedPointer, Pointer
<1>3. QED BY <1>2 DEF Translate

(***************************************************************************)
(* Type correctness                                                        *)
(***************************************************************************)

LEMMA InitTyped == Init => TypeOK
<1> SUFFICES ASSUME Init PROVE TypeOK
    OBVIOUS
<1>1. <<>> \in Path /\ Len(<<>>) < BufLen
    BY EmptySeq, PathAssumption DEF Path
<1>2. depth \in [Threads -> 0..MaxDepth]
    BY HooksAssumption DEF Init
<1>3. act \in [Threads -> [1..MaxDepth -> Activation]]
    BY IdleTyped DEF Init
<1>4. \A t \in Threads : 1..depth[t] = {}
    BY DEF Init
<1>5. QED BY <1>1, <1>2, <1>3, <1>4, HooksAssumption DEF Init, TypeOK

LEMMA EnterTyped ==
    ASSUME TypeOK, NEW t \in Threads, Enter(t)
    PROVE  TypeOK'
<1> DEFINE n == depth[t] + 1
<1>1. PICK c \in Callable(t) :
        /\ depth' = [depth EXCEPT ![t] = @ + 1]
        /\ act' = [act EXCEPT ![t][n] = [call |-> c, ptr |-> <<>>, copying |-> FALSE]]
    BY DEF Enter
<1> DEFINE a == [call |-> c, ptr |-> <<>>, copying |-> FALSE]
<1>2. c \in AllCalls
    BY DEF Callable, AllCalls
<1>3. a \in Activation
    BY <1>2, EmptySeq DEF Activation
<1>4. n \in 1..MaxDepth /\ depth[t] \in 0..MaxDepth
    BY HooksAssumption DEF TypeOK, Enter
<1>5. /\ act' \in [Threads -> [1..MaxDepth -> Activation]]
      /\ \A u \in Threads : \A d \in 1..MaxDepth :
            act'[u][d] = IF u = t /\ d = n THEN a ELSE act[u][d]
    <2>1. act \in [Threads -> [1..MaxDepth -> Activation]]
        BY DEF TypeOK
    <2>2. QED BY <1>1, <1>3, <1>4, <2>1, Replaced, ZenonT(60)
<1>6. /\ depth' \in [Threads -> 0..MaxDepth]
      /\ \A u \in Threads : depth'[u] = IF u = t THEN n ELSE depth[u]
    BY <1>1, <1>4 DEF TypeOK
<1>7. ASSUME NEW u \in Threads, NEW d \in 1..depth'[u]
      PROVE  /\ act'[u][d].call \in AllCalls
             /\ Len(act'[u][d].ptr) <= Len(act'[u][d].call.args)
             /\ act'[u][d].copying => Len(act'[u][d].ptr) > 0
    <2>1. d \in 1..MaxDepth
        BY <1>6, HooksAssumption
    <2>2. CASE u = t /\ d = n
        <3>1. act'[u][d] = a
            BY <1>5, <2>1, <2>2
        <3>2. c.args \in Seq(Path)
            BY <1>2, HooksAssumption
        <3>3. Len(<<>>) <= Len(c.args)
            BY <3>2, EmptySeq, LenProperties
        <3>4. QED BY <1>2, <3>1, <3>3
    <2>3. CASE ~(u = t /\ d = n)
        <3>1. d \in 1..depth[u]
            BY <1>4, <1>6, <2>3
        <3>2. act'[u][d] = act[u][d]
            BY <1>5, <2>1, <2>3
        <3>3. QED BY <3>1, <3>2 DEF TypeOK
    <2>4. QED BY <2>2, <2>3
<1>8. UNCHANGED <<tlbuf, fs, cwd, dir>>
    BY DEF Enter
<1>9. QED BY <1>5, <1>6, <1>7, <1>8 DEF TypeOK

\* A step that only replaces the running activation.
LEMMA PrepareTyped ==
    ASSUME TypeOK, NEW t \in Threads, depth[t] > 0,
           NEW a \in Activation,
           act' = [act EXCEPT ![t][depth[t]] = a],
           a.call = Top(t).call,
           Len(a.ptr) <= Len(a.call.args),
           a.copying => Len(a.ptr) > 0,
           tlbuf' \in [Threads -> Path],
           \A u \in Threads : Len(tlbuf'[u]) < BufLen,
           UNCHANGED <<depth, fs, cwd, dir>>
    PROVE  TypeOK'
<1>1. /\ act' \in [Threads -> [1..MaxDepth -> Activation]]
      /\ \A u \in Threads : \A d \in 1..MaxDepth :
            act'[u][d] = IF u = t /\ d = depth[t] THEN a ELSE act[u][d]
    <2>1. act \in [Threads -> [1..MaxDepth -> Activation]]
        BY DEF TypeOK
    <2>2. depth[t] \in 1..MaxDepth
        BY TopTyped
    <2>3. QED BY <2>1, <2>2, Replaced, ZenonT(60)
<1>2. ASSUME NEW u \in Threads, NEW d \in 1..depth'[u]
      PROVE  /\ act'[u][d].call \in AllCalls
             /\ Len(act'[u][d].ptr) <= Len(act'[u][d].call.args)
             /\ act'[u][d].copying => Len(act'[u][d].ptr) > 0
    <2>1. d \in 1..depth[u] /\ d \in 1..MaxDepth
        BY HooksAssumption DEF TypeOK
    <2>2. CASE u = t /\ d = depth[t]
        BY <1>1, <2>1, <2>2, TopTyped
    <2>3. CASE ~(u = t /\ d = depth[t])
        BY <1>1, <2>1, <2>3 DEF TypeOK
    <2>4. QED BY <2>2, <2>3
<1>3. QED BY <1>1, <1>2 DEF TypeOK

LEMMA TranslateArgTyped ==
    ASSUME TypeOK, NEW t \in Threads, TranslateArg(t)
    PROVE  TypeOK'
<1> DEFINE c    == Top(t).call
           s    == Top(t).ptr
           n    == Len(s) + 1
           p    == c.args[n]
           copy == Modes(c)[n] = "save"
           a    == [call |-> c, ptr |-> Append(s, TranslatedPointer(p)), copying |-> copy]
<1>1. depth[t] > 0 /\ n <= Len(c.args)
    BY DEF TranslateArg, Preparing, NextArg
<1>2. p \in Path
    BY <1>1, TopTyped, ElementOfSeq
<1>3. TranslatedPointer(p) \in Pointer /\ copy \in BOOLEAN
    BY <1>2, TranslatedPointerTyped
<1>4. a \in Activation /\ Len(a.ptr) = n
    <2>1. c \in AllCalls /\ s \in Seq(Pointer)
        BY <1>1, TopTyped
    <2>2. QED BY <1>3, <2>1, Appended, ZenonT(60)
<1>5. act' = [act EXCEPT ![t][depth[t]] = a]
    BY DEF TranslateArg, NextArg, TranslatedPointer
<1>6. /\ tlbuf' \in [Threads -> Path]
      /\ \A u \in Threads : Len(tlbuf'[u]) < BufLen
    <2>1. tlbuf' = IF Translate(p).place = "tlbuf"
                   THEN [tlbuf EXCEPT ![t] = Translate(p).path] ELSE tlbuf
        BY DEF TranslateArg, NextArg
    <2>2. Translate(p).path \in Path
        BY <1>2, TranslateTyped
    <2>3. QED BY <1>2, <2>1, <2>2, TranslatedPointerTyped DEF TypeOK
<1>7. Len(a.ptr) > 0 /\ UNCHANGED <<depth, fs, cwd, dir>>
    BY <1>1, <1>4, TopTyped DEF TranslateArg
<1>8. QED BY <1>1, <1>4, <1>5, <1>6, <1>7, PrepareTyped

LEMMA PassArgTyped ==
    ASSUME TypeOK, NEW t \in Threads, PassArg(t)
    PROVE  TypeOK'
<1> DEFINE c == Top(t).call
           s == Top(t).ptr
           n == Len(s) + 1
           p == [place |-> "caller", path |-> c.args[n]]
           a == [call |-> c, ptr |-> Append(s, p), copying |-> FALSE]
<1>1. depth[t] > 0 /\ n <= Len(c.args)
    BY DEF PassArg, Preparing, NextArg
<1>2. c.args[n] \in Path
    BY <1>1, TopTyped, ElementOfSeq
<1>3. p \in Pointer
    BY <1>2 DEF Pointer
<1>4. a \in Activation /\ Len(a.ptr) = n
    BY <1>1, <1>3, TopTyped, Appended
<1>5. act' = [act EXCEPT ![t][depth[t]] = a]
    BY DEF PassArg, NextArg
<1>6. /\ tlbuf' \in [Threads -> Path]
      /\ \A u \in Threads : Len(tlbuf'[u]) < BufLen
      /\ UNCHANGED <<depth, fs, cwd, dir>>
    BY DEF TypeOK, PassArg
<1>7. QED BY <1>1, <1>4, <1>5, <1>6, PrepareTyped

LEMMA CopyArgTyped ==
    ASSUME TypeOK, NEW t \in Threads, CopyArg(t)
    PROVE  TypeOK'
<1> DEFINE c    == Top(t).call
           s    == Top(t).ptr
           n    == Len(s)
           text == Deref(tlbuf[t], s[n])
           s2   == IF Len(text) < BufLen
                   THEN [s EXCEPT ![n] = [place |-> "saved", path |-> text]]
                   ELSE s
           a    == [call |-> c, ptr |-> s2, copying |-> FALSE]
<1>1. depth[t] > 0 /\ Top(t).copying
    BY DEF CopyArg
<1>2. n \in 1..n
    BY <1>1, TopTyped
<1>3. s[n] \in Pointer
    BY <1>1, <1>2, TopTyped, ElementOfSeq
<1>4. text \in Path
    BY <1>3, DerefTyped
<1>5. [place |-> "saved", path |-> text] \in Pointer
    BY <1>4 DEF Pointer
<1>6. s2 \in Seq(Pointer) /\ Len(s2) = n
    BY <1>1, <1>2, <1>5, TopTyped, ExceptSeq
<1>7. a \in Activation
    BY <1>1, <1>6, TopTyped DEF Activation
<1>8. act' = [act EXCEPT ![t][depth[t]] = a]
    BY DEF CopyArg
<1>9. Len(a.ptr) <= Len(a.call.args)
    BY <1>1, <1>6, TopTyped
<1>10. /\ tlbuf' \in [Threads -> Path]
       /\ \A u \in Threads : Len(tlbuf'[u]) < BufLen
       /\ UNCHANGED <<depth, fs, cwd, dir>>
    BY DEF TypeOK, CopyArg
<1>11. QED BY <1>1, <1>7, <1>8, <1>9, <1>10, PrepareTyped

\* What the kernel reads of a call: a text for each of its arguments.
LEMMA TextsTyped ==
    ASSUME TypeOK, NEW t \in Threads, Syscall(t)
    PROVE  /\ Top(t).call \in AllCalls /\ Len(Top(t).ptr) = Len(Top(t).call.args)
           /\ \A i \in DOMAIN Top(t).call.args :
                /\ i \in 1..Len(Top(t).ptr)
                /\ Deref(tlbuf[t], Top(t).ptr[i]) \in Path
<1>1. depth[t] > 0 /\ Len(Top(t).ptr) + 1 > Len(Top(t).call.args)
    BY DEF Syscall, NextArg
<1>2. /\ Top(t).call \in AllCalls /\ Len(Top(t).ptr) = Len(Top(t).call.args)
      /\ DOMAIN Top(t).call.args = 1..Len(Top(t).ptr)
    BY <1>1, TopTyped, LenProperties
<1>3. ASSUME NEW i \in 1..Len(Top(t).ptr)
      PROVE  Deref(tlbuf[t], Top(t).ptr[i]) \in Path
    <2>1. Top(t).ptr[i] \in Pointer
        BY <1>1, TopTyped, ElementOfSeq
    <2>2. QED BY <2>1, DerefTyped
<1>4. QED BY <1>2, <1>3

LEMMA SymlinkHasText ==
    ASSUME NEW c \in AllCalls, Sys(c) = "symlink"
    PROVE  1 \in DOMAIN c.args
<1>1. Len(c.args) \in {1, 2}
    BY ModesShape, HooksAssumption
<1>2. DOMAIN c.args = 1..Len(c.args)
    BY HooksAssumption, LenProperties
<1>3. 1 \in 1..1 /\ 1 \in 1..2
    OBVIOUS
<1>4. QED BY <1>1, <1>2, <1>3, Zenon

\* The variables of the file system after a system call.
LEMMA EffectSound ==
    ASSUME TypeOK, NEW c \in AllCalls, NEW texts,
           \A i \in DOMAIN c.args : texts[i] \in Path, Effect(c, texts)
    PROVE  fs' \in [Names -> Node] /\ cwd' \in Path /\ dir' \in Path
<1> DEFINE base  == IF c.at = "fd" THEN dir ELSE cwd
           where == [i \in DOMAIN c.args |-> Resolve(base, texts[i])]
           ans   == Perform(Sys(c), fs, texts, where, KernelText)
<1>1. /\ fs' = ans.fs
      /\ cwd' = IF Sys(c) = "chdir" /\ ans.ret.kind = "ok" THEN ans.dir ELSE cwd
      /\ dir' = IF Sys(c) = "opendir" /\ ans.ret.kind = "ok" THEN ans.dir ELSE dir
    BY DEF Effect
<1>2. Sys(c) \in KernelCalls
    BY HooksAssumption
<1>3. Sys(c) = "symlink" => texts[1] \in Path
    BY SymlinkHasText
<1>4. Sound(ans)
    <2>1. fs \in [Names -> Node]
        BY DEF TypeOK
    <2> HIDE DEF where
    <2>2. QED BY <1>2, <1>3, <2>1, PerformSound
<1>5. QED
    <2> HIDE DEF ans
    <2>1. QED BY <1>1, <1>4 DEF Sound, TypeOK

LEMMA SyscallSound ==
    ASSUME TypeOK, NEW t \in Threads, Syscall(t)
    PROVE  fs' \in [Names -> Node] /\ cwd' \in Path /\ dir' \in Path
<1>1. PICK texts : /\ texts = [i \in DOMAIN Top(t).call.args |-> Deref(tlbuf[t], Top(t).ptr[i])]
                   /\ Effect(Top(t).call, texts)
    BY DEF Syscall
<1>2. Top(t).call \in AllCalls /\ \A i \in DOMAIN Top(t).call.args : texts[i] \in Path
    BY <1>1, TextsTyped
<1>3. QED BY <1>1, <1>2, EffectSound

LEMMA SyscallTyped ==
    ASSUME TypeOK, NEW t \in Threads, Syscall(t)
    PROVE  TypeOK'
<1>1. /\ depth[t] > 0
      /\ act' = [act EXCEPT ![t][depth[t]] = Idle]
      /\ depth' = [depth EXCEPT ![t] = @ - 1]
      /\ UNCHANGED tlbuf
    BY DEF Syscall
<1>2. depth[t] \in 1..MaxDepth
    BY <1>1, TopTyped
<1>3. /\ act' \in [Threads -> [1..MaxDepth -> Activation]]
      /\ \A u \in Threads : \A d \in 1..MaxDepth :
            act'[u][d] = IF u = t /\ d = depth[t] THEN Idle ELSE act[u][d]
    <2>1. act \in [Threads -> [1..MaxDepth -> Activation]]
        BY DEF TypeOK
    <2>2. QED BY <1>1, <1>2, <2>1, IdleTyped, Replaced, ZenonT(60)
<1>4. /\ depth' \in [Threads -> 0..MaxDepth]
      /\ \A u \in Threads : depth'[u] = IF u = t THEN depth[t] - 1 ELSE depth[u]
    BY <1>1, <1>2, HooksAssumption DEF TypeOK
<1>5. ASSUME NEW u \in Threads, NEW d \in 1..depth'[u]
      PROVE  /\ act'[u][d].call \in AllCalls
             /\ Len(act'[u][d].ptr) <= Len(act'[u][d].call.args)
             /\ act'[u][d].copying => Len(act'[u][d].ptr) > 0
    <2>1. d \in 1..depth[u] /\ d \in 1..MaxDepth /\ ~(u = t /\ d = depth[t])
        BY <1>2, <1>4, HooksAssumption
    <2>2. act'[u][d] = act[u][d]
        BY <1>3, <2>1
    <2>3. QED BY <2>1, <2>2 DEF TypeOK
<1>6. tlbuf' \in [Threads -> Path] /\ \A u \in Threads : Len(tlbuf'[u]) < BufLen
    BY <1>1 DEF TypeOK
<1>7. QED BY <1>3, <1>4, <1>5, <1>6, SyscallSound DEF TypeOK

LEMMA NextTyped == TypeOK /\ [Next]_vars => TypeOK'
<1> SUFFICES ASSUME TypeOK, [Next]_vars PROVE TypeOK'
    OBVIOUS
<1>1. CASE UNCHANGED vars
    BY <1>1 DEF vars, TypeOK
<1>2. ASSUME NEW t \in Threads, Step(t)
      PROVE  TypeOK'
    <2>1. CASE Enter(t)        BY <2>1, EnterTyped
    <2>2. CASE OpenFake(t)     BY <2>2 DEF OpenFake, TypeOK
    <2>3. CASE TranslateArg(t) BY <2>3, TranslateArgTyped
    <2>4. CASE CopyArg(t)      BY <2>4, CopyArgTyped
    <2>5. CASE PassArg(t)      BY <2>5, PassArgTyped
    <2>6. CASE Syscall(t)      BY <2>6, SyscallTyped
    <2>7. QED BY <1>2, <2>1, <2>2, <2>3, <2>4, <2>5, <2>6 DEF Step
<1>3. QED BY <1>1, <1>2 DEF Next

\* The hooks keep their variables well typed, never write past the end of
\* TL_BUF (lib.rs:175-180, 208-213) and always know whose call they serve.
THEOREM TypeCorrect == Spec => []TypeOK
<1>1. Init => TypeOK
    BY InitTyped
<1>2. TypeOK /\ [Next]_vars => TypeOK'
    BY NextTyped
<1>3. QED BY <1>1, <1>2, PTL DEF Spec

(***************************************************************************)
(* The pointers                                                            *)
(***************************************************************************)

\* The activation that runs keeps to the discipline and its pointers lead
\* where they should; while it prepares, none of them leads into TL_BUF.
LEMMA TopPointers ==
    ASSUME TypeOK, PointerDiscipline, PointersIntact,
           NEW t \in Threads, depth[t] > 0
    PROVE  /\ Disciplined(depth[t], Top(t))
           /\ Intact(tlbuf[t], Top(t))
           /\ Preparing(t) =>
                \A i \in 1..Len(Top(t).ptr) : Top(t).ptr[i].place # "tlbuf"
<1>1. depth[t] \in 1..depth[t]
    BY TopTyped
<1>2. Disciplined(depth[t], Top(t)) /\ Intact(tlbuf[t], Top(t))
    BY <1>1 DEF PointerDiscipline, PointersIntact, Top
<1>3. ASSUME Preparing(t), NEW i \in 1..Len(Top(t).ptr), Top(t).ptr[i].place = "tlbuf"
      PROVE  FALSE
    <2>1. Modes(Top(t).call)[i] = "translate" /\ i = Len(Top(t).ptr)
        BY <1>2, <1>3 DEF Disciplined, Preparing
    <2>2. /\ Top(t).call \in AllCalls
          /\ Len(Top(t).call.args) = Len(Modes(Top(t).call))
        BY TopTyped, HooksAssumption
    <2>3. Len(Top(t).ptr) + 1 <= Len(Top(t).call.args)
        BY <1>3 DEF Preparing, NextArg
    <2>4. i \in 1..Len(Modes(Top(t).call))
        BY <2>2, <2>3, TopTyped
    <2>5. i = Len(Modes(Top(t).call))
        BY <2>1, <2>4, ModesShape
    <2>6. QED BY <2>1, <2>2, <2>3, <2>5, TopTyped
<1>4. QED BY <1>2, <1>3

\* A step that replaces the running activation keeps the invariant if the new
\* one is in order and TL_BUF changes only under a call nobody interrupted.
LEMMA PrepareIntact ==
    ASSUME TypeOK, PointerDiscipline, PointersIntact,
           NEW t \in Threads, depth[t] > 0,
           NEW a \in Activation,
           act' = [act EXCEPT ![t][depth[t]] = a],
           depth' = depth,
           Disciplined(depth[t], a),
           Intact(tlbuf'[t], a),
           \A u \in Threads \ {t} : tlbuf'[u] = tlbuf[u],
           depth[t] > 1 => tlbuf'[t] = tlbuf[t]
    PROVE  PointerDiscipline' /\ PointersIntact'
<1>1. \A u \in Threads : \A d \in 1..MaxDepth :
            act'[u][d] = IF u = t /\ d = depth[t] THEN a ELSE act[u][d]
    <2>1. act \in [Threads -> [1..MaxDepth -> Activation]]
        BY DEF TypeOK
    <2>2. depth[t] \in 1..MaxDepth
        BY TopTyped
    <2>3. QED BY <2>1, <2>2, Replaced
<1>2. ASSUME NEW u \in Threads, NEW d \in 1..depth[u]
      PROVE  Disciplined(d, act'[u][d]) /\ Intact(tlbuf'[u], act'[u][d])
    <2>1. d \in 1..MaxDepth /\ depth[u] \in Nat /\ d \in Nat
        BY HooksAssumption DEF TypeOK
    <2>2. CASE u = t /\ d = depth[t]
        BY <1>1, <2>1, <2>2
    <2>3. CASE ~(u = t /\ d = depth[t])
        <3>1. act'[u][d] = act[u][d]
            BY <1>1, <2>1, <2>3
        <3>2. Disciplined(d, act[u][d]) /\ Intact(tlbuf[u], act[u][d])
            BY DEF PointerDiscipline, PointersIntact
        <3>3. tlbuf'[u] = tlbuf[u]
            <4>1. CASE u # t BY <4>1
            <4>2. CASE u = t BY <4>2, <2>1, <2>3
            <4>3. QED BY <4>1, <4>2
        <3>4. QED BY <3>1, <3>2, <3>3
    <2>4. QED BY <2>2, <2>3
<1>3. QED BY <1>2 DEF PointerDiscipline, PointersIntact

LEMMA EnterIntact ==
    ASSUME TypeOK, PointerDiscipline, PointersIntact,
           NEW t \in Threads, Enter(t)
    PROVE  PointerDiscipline' /\ PointersIntact'
<1> DEFINE n == depth[t] + 1
<1>1. PICK c \in Callable(t) :
        /\ depth' = [depth EXCEPT ![t] = @ + 1]
        /\ act' = [act EXCEPT ![t][n] = [call |-> c, ptr |-> <<>>, copying |-> FALSE]]
    BY DEF Enter
<1> DEFINE a == [call |-> c, ptr |-> <<>>, copying |-> FALSE]
<1>2. n \in 1..MaxDepth /\ depth[t] \in 0..MaxDepth
    BY HooksAssumption DEF TypeOK, Enter
<1>3. a \in Activation
    BY EmptySeq DEF Activation, Callable, AllCalls
<1>4. \A u \in Threads : \A d \in 1..MaxDepth :
            act'[u][d] = IF u = t /\ d = n THEN a ELSE act[u][d]
    <2>1. act \in [Threads -> [1..MaxDepth -> Activation]]
        BY DEF TypeOK
    <2>2. QED BY <1>1, <1>2, <1>3, <2>1, Replaced, ZenonT(60)
<1>5. \A u \in Threads : depth'[u] = IF u = t THEN n ELSE depth[u]
    BY <1>1, <1>2 DEF TypeOK
<1>6. Disciplined(n, a) /\ Intact(tlbuf[t], a)
    <2>1. c \in IF n = 1 THEN Calls ELSE HandlerCalls
        BY <1>2 DEF Callable
    <2>2. 1..Len(a.ptr) = {}
        BY EmptySeq
    <2>3. QED BY <2>1, <2>2 DEF Disciplined, Intact
<1>7. ASSUME NEW u \in Threads, NEW d \in 1..depth'[u]
      PROVE  Disciplined(d, act'[u][d]) /\ Intact(tlbuf[u], act'[u][d])
    <2>1. d \in 1..MaxDepth
        <3>1. depth[u] \in 0..MaxDepth
            BY DEF TypeOK
        <3>2. QED BY <1>2, <1>5, <3>1, HooksAssumption
    <2>2. CASE u = t /\ d = n
        BY <1>4, <1>6, <2>1, <2>2
    <2>3. CASE ~(u = t /\ d = n)
        <3>1. d \in 1..depth[u] /\ act'[u][d] = act[u][d]
            BY <1>2, <1>4, <1>5, <2>1, <2>3
        <3>2. QED BY <3>1 DEF PointerDiscipline, PointersIntact
    <2>4. QED BY <2>2, <2>3
<1>8. tlbuf' = tlbuf
    BY DEF Enter
<1>9. QED BY <1>7, <1>8 DEF PointerDiscipline, PointersIntact

\* What the next argument adds to the running activation is in order if the
\* new pointer is.
LEMMA AppendIntact ==
    ASSUME TypeOK, PointerDiscipline, PointersIntact,
           NEW t \in Threads, depth[t] > 0, Preparing(t),
           NEW p \in Pointer, NEW b \in BOOLEAN, NEW buf,
           b => Modes(Top(t).call)[NextArg(t)] = "save",
           p.place = "tlbuf" =>
                /\ depth[t] = 1
                /\ b \/ Modes(Top(t).call)[NextArg(t)] = "translate",
           Deref(buf, p) = Intended(Top(t).call, NextArg(t)),
           NEW a, a = [call |-> Top(t).call, ptr |-> Append(Top(t).ptr, p),
                       copying |-> b]
    PROVE  a \in Activation /\ Disciplined(depth[t], a) /\ Intact(buf, a)
<1> DEFINE c == Top(t).call
           s == Top(t).ptr
           n == Len(s) + 1
<1>1. c \in AllCalls /\ s \in Seq(Pointer) /\ Len(s) \in Nat
    BY TopTyped
<1>2. /\ a \in Activation
      /\ Len(a.ptr) = n
      /\ \A i \in 1..Len(s) : a.ptr[i] = s[i]
      /\ a.ptr[n] = p
    <2>1. a = [call |-> c, ptr |-> Append(s, p), copying |-> b] /\ a.ptr = Append(s, p)
        OBVIOUS
    <2>2. /\ [call |-> c, ptr |-> Append(s, p), copying |-> b] \in Activation
          /\ Len(Append(s, p)) = Len(s) + 1
          /\ \A i \in 1..Len(s) : Append(s, p)[i] = s[i]
          /\ Append(s, p)[Len(s) + 1] = p
        BY <1>1, Appended, ZenonT(60)
    <2> HIDE DEF s, c
    <2>3. QED BY <2>1, <2>2, Zenon
<1>3. \A i \in 1..n : i \in 1..Len(s) \/ i = n
    BY <1>1
<1>4. /\ Disciplined(depth[t], Top(t))
      /\ Intact(tlbuf[t], Top(t))
      /\ \A i \in 1..Len(s) : s[i].place # "tlbuf"
    BY TopPointers
<1>5. Disciplined(depth[t], a)
    <2>1. a.call \in IF depth[t] = 1 THEN Calls ELSE HandlerCalls
        BY <1>4 DEF Disciplined
    <2>2. a.copying => Modes(a.call)[Len(a.ptr)] = "save"
        BY <1>2 DEF NextArg
    <2>3. ASSUME NEW i \in 1..Len(a.ptr), a.ptr[i].place = "tlbuf"
          PROVE  /\ depth[t] = 1 /\ i = Len(a.ptr)
                 /\ a.copying \/ Modes(a.call)[i] = "translate"
        <3>1. i = n
            BY <1>2, <1>3, <1>4, <2>3
        <3>2. QED BY <1>2, <2>3, <3>1 DEF NextArg
    <2>4. QED BY <2>1, <2>2, <2>3 DEF Disciplined
<1>6. Intact(buf, a)
    <2>1. ASSUME NEW i \in 1..Len(a.ptr)
          PROVE  Deref(buf, a.ptr[i]) = Intended(a.call, i)
        <3>1. CASE i = n
            BY <1>2, <3>1 DEF NextArg
        <3>2. CASE i \in 1..Len(s)
            <4>1. Deref(tlbuf[t], s[i]) = Intended(c, i)
                BY <1>4, <3>2 DEF Intact
            <4>2. Deref(buf, s[i]) = Deref(tlbuf[t], s[i])
                BY <1>4, <3>2 DEF Deref
            <4>3. QED BY <1>2, <3>2, <4>1, <4>2
        <3>3. QED BY <1>2, <1>3, <3>1, <3>2
    <2>2. QED BY <2>1 DEF Intact
<1>7. QED BY <1>2, <1>5, <1>6

\* A handler's arguments need no translation.
LEMMA HandlersKeepOut ==
    ASSUME TypeOK, PointerDiscipline, PointersIntact, QuietHandlers,
           NEW t \in Threads, depth[t] > 1, Preparing(t),
           Modes(Top(t).call)[NextArg(t)] # "raw"
    PROVE  Translate(Top(t).call.args[NextArg(t)]).place = "caller"
<1>1. depth[t] \in 0..MaxDepth
    BY DEF TypeOK
<1>2. depth[t] > 0 /\ depth[t] # 1 /\ ~(MaxDepth <= 1)
    BY <1>1, HooksAssumption
<1>3. Top(t).call \in HandlerCalls
    BY <1>2, TopPointers DEF Disciplined
<1>4. NextArg(t) \in 1..Len(Top(t).call.args)
    BY TopTyped DEF Preparing, NextArg
<1>5. QED BY <1>2, <1>3, <1>4 DEF QuietHandlers

LEMMA TranslateArgIntact ==
    ASSUME TypeOK, PointerDiscipline, PointersIntact, QuietHandlers,
           NEW t \in Threads, TranslateArg(t)
    PROVE  PointerDiscipline' /\ PointersIntact'
<1> DEFINE c    == Top(t).call
           n    == NextArg(t)
           mode == Modes(c)[n]
           arg  == c.args[n]
           copy == mode = "save"
           a    == [call |-> c, ptr |-> Append(Top(t).ptr, TranslatedPointer(arg)),
                    copying |-> copy]
<1>1. /\ Preparing(t) /\ mode # "raw"
      /\ tlbuf' = IF Translate(arg).place = "tlbuf"
                  THEN [tlbuf EXCEPT ![t] = Translate(arg).path] ELSE tlbuf
      /\ act' = [act EXCEPT ![t][depth[t]] = a]
      /\ depth' = depth
    BY DEF TranslateArg, TranslatedPointer
<1>2. depth[t] > 0 /\ depth[t] \in Nat /\ n \in 1..Len(c.args) /\ arg \in Path
    <2>1. depth[t] > 0 /\ n <= Len(c.args)
        BY <1>1 DEF Preparing
    <2>2. QED BY <2>1, TopTyped, ElementOfSeq DEF NextArg
<1>3. mode \in {"save", "translate"}
    <2>1. c \in AllCalls /\ Len(c.args) = Len(Modes(c))
        BY <1>2, TopTyped, HooksAssumption
    <2>2. QED BY <1>1, <1>2, <2>1, ModesShape
<1>4. depth[t] > 1 => Translate(arg).place = "caller"
    BY <1>1, HandlersKeepOut
<1>5. TranslatedPointer(arg) \in Pointer /\ copy \in BOOLEAN
    BY <1>2, TranslatedPointerTyped
<1>6. /\ \A u \in Threads \ {t} : tlbuf'[u] = tlbuf[u]
      /\ depth[t] > 1 => tlbuf'[t] = tlbuf[t]
      /\ Translate(arg).place = "tlbuf" => tlbuf'[t] = Translate(arg).path
    BY <1>1, <1>4 DEF TypeOK
<1>7. Deref(tlbuf'[t], TranslatedPointer(arg)) = Intended(c, n)
    BY <1>1, <1>6 DEF Deref, Intended, TranslatedPointer
<1>8. TranslatedPointer(arg).place = "tlbuf" =>
            depth[t] = 1 /\ (copy \/ mode = "translate")
    BY <1>2, <1>3, <1>4 DEF TranslatedPointer
<1>9. a \in Activation /\ Disciplined(depth[t], a) /\ Intact(tlbuf'[t], a)
    BY <1>1, <1>2, <1>5, <1>7, <1>8, AppendIntact, ZenonT(60)
<1>10. QED BY <1>1, <1>2, <1>6, <1>9, PrepareIntact

LEMMA PassArgIntact ==
    ASSUME TypeOK, PointerDiscipline, PointersIntact,
           NEW t \in Threads, PassArg(t)
    PROVE  PointerDiscipline' /\ PointersIntact'
<1> DEFINE c == Top(t).call
           n == NextArg(t)
           p == [place |-> "caller", path |-> c.args[n]]
           a == [call |-> c, ptr |-> Append(Top(t).ptr, p), copying |-> FALSE]
<1>1. /\ Preparing(t) /\ Modes(c)[n] = "raw"
      /\ act' = [act EXCEPT ![t][depth[t]] = a]
      /\ depth' = depth /\ tlbuf' = tlbuf
    BY DEF PassArg
<1>2. depth[t] > 0 /\ c.args[n] \in Path
    <2>1. depth[t] > 0 /\ n <= Len(c.args)
        BY <1>1 DEF Preparing
    <2>2. QED BY <2>1, TopTyped, ElementOfSeq DEF NextArg
<1>3. p \in Pointer
    BY <1>2 DEF Pointer
<1>4. Deref(tlbuf[t], p) = Intended(c, n)
    BY <1>1 DEF Deref, Intended
<1>5. a \in Activation /\ Disciplined(depth[t], a) /\ Intact(tlbuf[t], a)
    BY <1>1, <1>2, <1>3, <1>4, AppendIntact
<1>6. QED BY <1>1, <1>2, <1>5, PrepareIntact

LEMMA CopyArgIntact ==
    ASSUME TypeOK, PointerDiscipline, PointersIntact,
           NEW t \in Threads, CopyArg(t)
    PROVE  PointerDiscipline' /\ PointersIntact'
<1> DEFINE c    == Top(t).call
           s    == Top(t).ptr
           n    == Len(s)
           text == Deref(tlbuf[t], s[n])
           s2   == IF Len(text) < BufLen
                   THEN [s EXCEPT ![n] = [place |-> "saved", path |-> text]]
                   ELSE s
           a    == [call |-> c, ptr |-> s2, copying |-> FALSE]
<1>1. /\ depth[t] > 0 /\ Top(t).copying
      /\ act' = [act EXCEPT ![t][depth[t]] = a]
      /\ depth' = depth /\ tlbuf' = tlbuf
    BY DEF CopyArg
<1>2. n \in 1..n /\ s \in Seq(Pointer) /\ c \in AllCalls
    BY <1>1, TopTyped
<1>3. s[n] \in Pointer
    BY <1>2, ElementOfSeq
<1>4. text \in Path
    BY <1>3, DerefTyped
<1>5. [place |-> "saved", path |-> text] \in Pointer
    BY <1>4 DEF Pointer
<1>6. /\ s2 \in Seq(Pointer) /\ Len(s2) = n
      /\ \A i \in 1..n : i # n => s2[i] = s[i]
      /\ s2[n] = IF Len(text) < BufLen THEN [place |-> "saved", path |-> text] ELSE s[n]
    BY <1>2, <1>5, ExceptSeq
<1>7. a \in Activation
    BY <1>2, <1>6 DEF Activation
<1>8. Disciplined(depth[t], Top(t)) /\ Intact(tlbuf[t], Top(t))
    BY <1>1, TopPointers
<1>9. \A i \in 1..n : s2[i].place # "tlbuf"
    <2>1. \A i \in 1..n : i # n => s[i].place # "tlbuf"
        BY <1>8 DEF Disciplined
    <2>2. s[n].place = "tlbuf" => Len(text) < BufLen
        BY DEF Deref, TypeOK
    <2>3. s2[n].place # "tlbuf"
        BY <1>6, <2>2
    <2>4. QED BY <1>6, <2>1, <2>3
<1>10. Disciplined(depth[t], a)
    BY <1>6, <1>8, <1>9 DEF Disciplined
<1>11. Intact(tlbuf[t], a)
    <2>1. ASSUME NEW i \in 1..n
          PROVE  Deref(tlbuf[t], s2[i]) = Intended(c, i)
        <3>1. Deref(tlbuf[t], s[i]) = Intended(c, i)
            BY <1>8 DEF Intact
        <3>2. Deref(tlbuf[t], s2[i]) = Deref(tlbuf[t], s[i])
            BY <1>6 DEF Deref
        <3>3. QED BY <3>1, <3>2
    <2>2. QED BY <1>6, <2>1 DEF Intact
<1>12. QED BY <1>1, <1>7, <1>10, <1>11, PrepareIntact

LEMMA SyscallIntact ==
    ASSUME TypeOK, PointerDiscipline, PointersIntact,
           NEW t \in Threads, Syscall(t)
    PROVE  PointerDiscipline' /\ PointersIntact'
<1>1. /\ depth[t] > 0
      /\ act' = [act EXCEPT ![t][depth[t]] = Idle]
      /\ depth' = [depth EXCEPT ![t] = @ - 1]
      /\ tlbuf' = tlbuf
    BY DEF Syscall
<1>2. depth[t] \in 1..MaxDepth
    BY <1>1, TopTyped
<1>3. \A u \in Threads : \A d \in 1..MaxDepth :
            act'[u][d] = IF u = t /\ d = depth[t] THEN Idle ELSE act[u][d]
    <2>1. act \in [Threads -> [1..MaxDepth -> Activation]]
        BY DEF TypeOK
    <2>2. QED BY <1>1, <1>2, <2>1, IdleTyped, Replaced, ZenonT(60)
<1>4. \A u \in Threads :
            /\ depth[u] \in 0..MaxDepth
            /\ depth'[u] = IF u = t THEN depth[t] - 1 ELSE depth[u]
    BY <1>1 DEF TypeOK
<1>5. ASSUME NEW u \in Threads, NEW d \in 1..depth'[u]
      PROVE  Disciplined(d, act'[u][d]) /\ Intact(tlbuf[u], act'[u][d])
    <2>1. d \in 1..depth[u] /\ d \in 1..MaxDepth /\ ~(u = t /\ d = depth[t])
        BY <1>2, <1>4, HooksAssumption
    <2>2. act'[u][d] = act[u][d]
        BY <1>3, <2>1
    <2>3. QED BY <2>1, <2>2 DEF PointerDiscipline, PointersIntact
<1>6. QED BY <1>1, <1>5 DEF PointerDiscipline, PointersIntact

LEMMA NextIntact ==
    ASSUME TypeOK, PointerDiscipline, PointersIntact, QuietHandlers, [Next]_vars
    PROVE  PointerDiscipline' /\ PointersIntact'
<1>1. CASE UNCHANGED vars
    BY <1>1 DEF vars, PointerDiscipline, PointersIntact
<1>2. ASSUME NEW t \in Threads, Step(t)
      PROVE  PointerDiscipline' /\ PointersIntact'
    <2>1. CASE Enter(t)        BY <2>1, EnterIntact
    <2>2. CASE OpenFake(t)
        BY <2>2 DEF OpenFake, PointerDiscipline, PointersIntact
    <2>3. CASE TranslateArg(t) BY <2>3, TranslateArgIntact
    <2>4. CASE CopyArg(t)      BY <2>4, CopyArgIntact
    <2>5. CASE PassArg(t)      BY <2>5, PassArgIntact
    <2>6. CASE Syscall(t)      BY <2>6, SyscallIntact
    <2>7. QED BY <1>2, <2>1, <2>2, <2>3, <2>4, <2>5, <2>6 DEF Step
<1>3. QED BY <1>1, <1>2 DEF Next

\* As long as signal handlers use only paths that need no translation, no
\* hook of any thread overwrites a text that another hook, or a later
\* argument of its own, still needs: every pointer leads to the translation
\* of its own argument until the kernel has read it (TL_BUF, lib.rs:122-131;
\* save_path, lib.rs:238-256).  PointerDiscipline is what makes it inductive.
THEOREM PointersStayIntact ==
    ASSUME QuietHandlers
    PROVE  Spec => [](PointerDiscipline /\ PointersIntact)
<1>1. Init => PointerDiscipline /\ PointersIntact
    <2> SUFFICES ASSUME Init PROVE PointerDiscipline /\ PointersIntact
        OBVIOUS
    <2>1. \A t \in Threads : 1..depth[t] = {}
        BY DEF Init
    <2>2. QED BY <2>1 DEF PointerDiscipline, PointersIntact
<1>2. TypeOK /\ (PointerDiscipline /\ PointersIntact) /\ [Next]_vars
        => (PointerDiscipline /\ PointersIntact)'
    BY NextIntact
<1>3. Spec => []TypeOK
    BY TypeCorrect
<1>4. QED BY <1>1, <1>2, <1>3, PTL DEF Spec

(***************************************************************************)
(* The calls                                                               *)
(***************************************************************************)

\* When the system call is made, the kernel reads what was intended.
LEMMA SyscallActs ==
    ASSUME TypeOK, PointerDiscipline, PointersIntact, NEW t \in Threads, Syscall(t)
    PROVE  /\ Top(t).call \in AllCalls
           /\ Effect(Top(t).call, [i \in DOMAIN Top(t).call.args |-> Intended(Top(t).call, i)])
<1>1. depth[t] > 0
    BY DEF Syscall
<1>2. \A i \in DOMAIN Top(t).call.args : i \in 1..Len(Top(t).ptr)
    BY TextsTyped
<1>3. \A i \in DOMAIN Top(t).call.args :
         Deref(tlbuf[t], Top(t).ptr[i]) = Intended(Top(t).call, i)
    BY <1>1, <1>2, TopPointers DEF Intact
<1>4. [i \in DOMAIN Top(t).call.args |-> Deref(tlbuf[t], Top(t).ptr[i])]
        = [i \in DOMAIN Top(t).call.args |-> Intended(Top(t).call, i)]
    BY <1>3
<1>5. Effect(Top(t).call, [i \in DOMAIN Top(t).call.args |-> Deref(tlbuf[t], Top(t).ptr[i])])
    BY DEF Syscall
<1>6. Effect(Top(t).call, [i \in DOMAIN Top(t).call.args |-> Intended(Top(t).call, i)])
    BY <1>4, <1>5
<1>7. QED BY <1>6, TextsTyped

\* Every step but a system call leaves the file system, the directories and
\* the last result alone, or is the answer of a made-up file.
LEMMA StepShape ==
    ASSUME NEW t \in Threads, Step(t)
    PROVE  \/ UNCHANGED <<fs, cwd, dir, last>>
           \/ /\ UNCHANGED <<fs, cwd, dir>>
              /\ \E c \in AllCalls : Faked(c) /\ last' = [call |-> c, ret |-> Result("fake")]
           \/ Syscall(t)
<1>1. CASE Enter(t)        BY <1>1 DEF Enter
<1>2. CASE OpenFake(t)     BY <1>2 DEF OpenFake, Callable, AllCalls
<1>3. CASE TranslateArg(t) BY <1>3 DEF TranslateArg
<1>4. CASE CopyArg(t)      BY <1>4 DEF CopyArg
<1>5. CASE PassArg(t)      BY <1>5 DEF PassArg
<1>6. QED BY <1>1, <1>2, <1>3, <1>4, <1>5 DEF Step

\* The hooks implement calls that take effect at once, on the translations of
\* their own arguments: what threads and handlers do in between is not seen
\* (TL_BUF, lib.rs:122-131; "save old before translate(new) clobbers TL_BUF",
\* lib.rs:1219).
THEOREM HooksActAtOnce ==
    ASSUME QuietHandlers
    PROVE  Spec => CallsActAtOnce
<1> DEFINE ActAtOnce ==
        \E c \in AllCalls :
            \/ Faked(c) /\ last' = [call |-> c, ret |-> Result("fake")] /\ UNCHANGED <<fs, cwd, dir>>
            \/ Effect(c, [i \in DOMAIN c.args |-> Intended(c, i)])
<1>1. TypeOK /\ (PointerDiscipline /\ PointersIntact) /\ [Next]_vars
        => [ActAtOnce]_<<fs, cwd, dir, last>>
    <2> SUFFICES ASSUME TypeOK, PointerDiscipline, PointersIntact, [Next]_vars
                 PROVE  ActAtOnce \/ UNCHANGED <<fs, cwd, dir, last>>
        OBVIOUS
    <2>1. CASE UNCHANGED vars
        BY <2>1 DEF vars
    <2>2. ASSUME NEW t \in Threads, Step(t)
          PROVE  ActAtOnce \/ UNCHANGED <<fs, cwd, dir, last>>
        <3>1. Syscall(t) => ActAtOnce
            <4> SUFFICES ASSUME Syscall(t) PROVE ActAtOnce
                OBVIOUS
            <4>1. /\ Top(t).call \in AllCalls
                  /\ Effect(Top(t).call,
                            [i \in DOMAIN Top(t).call.args |-> Intended(Top(t).call, i)])
                BY SyscallActs
            <4>2. QED BY <4>1, Zenon
        <3>2. QED BY <2>2, <3>1, StepShape
    <2>3. QED BY <2>1, <2>2 DEF Next
<1>2. Spec => []TypeOK
    BY TypeCorrect
<1>3. Spec => [](PointerDiscipline /\ PointersIntact)
    BY PointersStayIntact
<1>4. QED BY <1>1, <1>2, <1>3, PTL DEF Spec, CallsActAtOnce

(***************************************************************************)
(* Where the guest can get to                                              *)
(***************************************************************************)

\* What a link may hold: what one held at the start, or was made with.
LinkTexts ==
    {InitFS[p].text : p \in {q \in Names : InitFS[q].kind = "link"}}
        \cup {c.args[1] : c \in {d \in AllCalls : Sys(d) = "symlink"}}

\* Links from inside a set of host paths lead to paths inside it.
LinksWithin(G) ==
    \A p \in G \cap Names : \A t \in LinkTexts :
        InitFS[p] # Dir /\ Resolve(Parent(p), t) \in Names => Resolve(Parent(p), t) \in G

\* A set that the process starts in and that no relative path and no link
\* leads out of.
Closed(G) ==
    /\ InitCwd \in G
    /\ \A d \in G : \A q \in Path :
          IsAbsolute(d) /\ q # <<>> /\ ~IsAbsolute(q) /\ Resolve(d, q) \in Names
            => Resolve(d, q) \in G
    /\ LinksWithin(G)

\* The calls by which the guest moves about, and those that change the file
\* system.
Moving   == {"chdir", "opendir"}
Changing == {"create", "mkdir", "remove", "rename", "link", "symlink"}

\* The absolute paths of these calls are translated into the set.
ArgumentsWithin(G, calls) ==
    \A c \in AllCalls : \A i \in DOMAIN c.args :
        Sys(c) \in calls /\ Modes(c)[i] # "raw" /\ IsAbsolute(c.args[i]) =>
            LET t == Translate(c.args[i]).path
            IN  IsAbsolute(t) /\ (Clean(t) \in Names => Clean(t) \in G)

\* Directories stay, and links hold what they may.
Kept(f) ==
    \A p \in Names : /\ f[p].kind = "link" => f[p].text \in LinkTexts
                     /\ InitFS[p] = Dir => f[p] = Dir

\* A call under way is not one that is answered with a made-up file, and if
\* it goes by a descriptor there is one.
Begun(a) == ~Faked(a.call) /\ (a.call.at = "fd" => dir # <<>>)

\* The guest's directories lie in the set.
Housed(G) ==
    /\ cwd \in G /\ IsAbsolute(cwd)
    /\ dir # <<>> => dir \in G /\ IsAbsolute(dir)
    /\ Kept(fs)
    /\ \A t \in Threads : \A d \in 1..depth[t] : Begun(act[t][d])

LEMMA NodesApart ==
    /\ Absent.kind = "none" /\ Dir.kind = "dir"
    /\ \A i : File(i).kind = "file"
    /\ \A t : Link(t).kind = "link" /\ Link(t).text = t
BY DEF Absent, Dir, File, Link

\* Where a last component that is a link leads.
LEMMA FollowStays ==
    ASSUME NEW G, LinksWithin(G), NEW f \in [Names -> Node], Kept(f), NEW p,
           p \in Names => p \in G,
           Follow(f, p, KernelText) \in Names
    PROVE  Follow(f, p, KernelText) \in G
<1>1. CASE At(f, p).kind # "link"
    BY <1>1 DEF Follow
<1>2. CASE At(f, p).kind = "link"
    <2>1. p \in Names /\ At(f, p) = f[p]
        BY <1>2, NodesApart DEF At
    <2>2. f[p].text \in LinkTexts /\ InitFS[p] # Dir
        BY <1>2, <2>1, NodesApart DEF Kept
    <2>3. Follow(f, p, KernelText) = Resolve(Parent(p), f[p].text)
        BY <1>2, <2>1 DEF Follow, KernelText
    <2>4. QED BY <2>1, <2>2, <2>3 DEF LinksWithin
<1>3. QED BY <1>1, <1>2

\* Moving about.
LEMMA OpenDirStays ==
    ASSUME NEW G, LinksWithin(G), NEW f \in [Names -> Node], Kept(f), NEW w,
           w[1] \in Names => w[1] \in G,
           NEW ans, ans = OpenDir(f, w, KernelText)
    PROVE  ans.fs = f /\ (ans.ret.kind = "ok" => ans.dir \in G \cap Names)
<1> DEFINE p == Follow(f, w[1], KernelText)
<1>1. CASE At(f, p) = Dir
    <2>1. p \in Names
        BY <1>1, NodesApart DEF At
    <2>2. p \in G
        BY <2>1, FollowStays
    <2>3. ans = [fs |-> f, ret |-> Result("ok"), dir |-> p]
        BY <1>1 DEF OpenDir
    <2>4. QED BY <2>1, <2>2, <2>3
<1>2. CASE At(f, p) # Dir
    <2>1. ans = Answer(f, Result(IF At(f, p) = Absent THEN "ENOENT" ELSE "ENOTDIR"))
        BY <1>2 DEF OpenDir
    <2>2. QED BY <2>1 DEF Answer, Result
<1>3. QED BY <1>1, <1>2

\* The paths a call changes, by the number of the argument that names them.
Changed(sys) ==
    CASE sys \in {"rename", "link"} -> {1, 2}
      [] sys = "symlink"            -> {2}
      [] OTHER                      -> {1}

\* From f to g only paths of G change, none of them a directory, and links
\* hold what they may.
Tame(f, g, G) ==
    \A p \in Names : g[p] # f[p] =>
        p \in G /\ f[p] # Dir /\ (g[p].kind = "link" => g[p].text \in LinkTexts)

LEMMA TameKeeps ==
    ASSUME NEW f, NEW g, NEW G, Kept(f), Tame(f, g, G)
    PROVE  Kept(g)
BY DEF Kept, Tame

\* A call changes what its arguments name, or what a link there leads to.
LEMMA PerformTame ==
    ASSUME NEW G, LinksWithin(G), NEW sys \in KernelCalls,
           NEW f \in [Names -> Node], Kept(f), NEW raw, NEW w,
           sys = "symlink" => raw[1] \in LinkTexts,
           sys \in Changing => \A i \in Changed(sys) : w[i] \in Names => w[i] \in G
    PROVE  Tame(f, Perform(sys, f, raw, w, KernelText).fs, G)
<1> DEFINE g == Perform(sys, f, raw, w, KernelText).fs
<1>1. \A r : Answer(f, r).fs = f
    BY DEF Answer
<1>2. Tame(f, f, G)
    BY DEF Tame
<1>3. CASE sys \in {"open", "lookup", "nofollow", "readlink"}
    <2>1. g = f
        BY <1>1, <1>3 DEF Perform, Lookup, LookupNoFollow, ReadLink
    <2>2. QED BY <1>2, <2>1
<1>4. CASE sys \in Moving
    <2>1. Perform(sys, f, raw, w, KernelText) = OpenDir(f, w, KernelText)
        BY <1>4 DEF Perform, Moving
    <2>2. g = f
        BY <1>1, <2>1 DEF OpenDir
    <2>3. QED BY <1>2, <2>2
<1>5. CASE sys = "create"
    <2> DEFINE p == Follow(f, w[1], KernelText)
    <2>1. w[1] \in Names => w[1] \in G
        BY <1>5 DEF Changing, Changed
    <2>2. p \in Names => p \in G
        BY <2>1, FollowStays
    <2>3. \/ g = f
          \/ p \in Names /\ f[p] = Absent /\ g = [f EXCEPT ![p] = File(NewFile)]
        BY <1>1, <1>5 DEF Perform, Create, Lookup, Answer
    <2> HIDE DEF g, p
    <2>4. QED BY <1>2, <2>2, <2>3, NodesApart DEF Tame, g
<1>6. CASE sys = "mkdir"
    <2>1. w[1] \in Names => w[1] \in G
        BY <1>6 DEF Changing, Changed
    <2>2. \/ g = f
          \/ w[1] \in Names /\ f[w[1]] = Absent /\ g = [f EXCEPT ![w[1]] = Dir]
        BY <1>1, <1>6 DEF Perform, Mkdir, Answer, At
    <2> HIDE DEF g
    <2>3. QED BY <1>2, <2>1, <2>2, NodesApart DEF Tame, g
<1>7. CASE sys = "remove"
    <2>1. w[1] \in Names => w[1] \in G
        BY <1>7 DEF Changing, Changed
    <2>2. \/ g = f
          \/ /\ At(f, w[1]).kind \notin {"none", "dir"}
             /\ g = [f EXCEPT ![w[1]] = Absent]
        BY <1>1, <1>7 DEF Perform, Unlink, Answer
    <2>3. At(f, w[1]).kind # "none" => w[1] \in Names /\ At(f, w[1]) = f[w[1]]
        BY PresentIsNamed
    <2> HIDE DEF g
    <2>4. QED BY <1>2, <2>1, <2>2, <2>3, NodesApart, ZenonT(60) DEF Tame, g
<1>8. CASE sys = "rename"
    <2>1. \A i \in {1, 2} : w[i] \in Names => w[i] \in G
        BY <1>8 DEF Changing, Changed
    <2>2. \/ g = f
          \/ /\ At(f, w[1]).kind \notin {"none", "dir"} /\ w[2] \in Names
             /\ At(f, w[2]).kind # "dir"
             /\ g = [f EXCEPT ![w[1]] = Absent, ![w[2]] = f[w[1]]]
        BY <1>1, <1>8 DEF Perform, Rename, Answer
    <2>3. At(f, w[1]).kind # "none" => w[1] \in Names /\ At(f, w[1]) = f[w[1]]
        BY PresentIsNamed
    <2>4. w[2] \in Names => At(f, w[2]) = f[w[2]]
        BY DEF At
    <2>5. w[1] \in Names /\ f[w[1]].kind = "link" => f[w[1]].text \in LinkTexts
        BY DEF Kept
    <2> HIDE DEF g
    <2>6. QED BY <1>2, <2>1, <2>2, <2>3, <2>4, <2>5, NodesApart DEF Tame, g
<1>9. CASE sys = "link"
    <2>1. \A i \in {1, 2} : w[i] \in Names => w[i] \in G
        BY <1>9 DEF Changing, Changed
    <2>2. \/ g = f
          \/ /\ At(f, w[1]).kind \notin {"none", "dir"} /\ w[2] \in Names
             /\ At(f, w[2]).kind = "none"
             /\ g = [f EXCEPT ![w[2]] = f[w[1]]]
        BY <1>1, <1>9 DEF Perform, HardLink, Answer
    <2>3. At(f, w[1]).kind # "none" => w[1] \in Names /\ At(f, w[1]) = f[w[1]]
        BY PresentIsNamed
    <2>4. w[2] \in Names => At(f, w[2]) = f[w[2]]
        BY DEF At
    <2>5. w[1] \in Names /\ f[w[1]].kind = "link" => f[w[1]].text \in LinkTexts
        BY DEF Kept
    <2> HIDE DEF g
    <2>6. QED BY <1>2, <2>1, <2>2, <2>3, <2>4, <2>5, NodesApart DEF Tame, g
<1>10. CASE sys = "symlink"
    <2>1. w[2] \in Names => w[2] \in G
        BY <1>10 DEF Changing, Changed
    <2>2. \/ g = f
          \/ w[2] \in Names /\ f[w[2]] = Absent /\ g = [f EXCEPT ![w[2]] = Link(raw[1])]
        BY <1>1, <1>10 DEF Perform, SymLink, Answer, At
    <2>3. raw[1] \in LinkTexts
        BY <1>10
    <2> HIDE DEF g
    <2>4. QED BY <1>2, <2>1, <2>2, <2>3, NodesApart, ZenonT(60) DEF Tame, g
<1>11. QED BY <1>3, <1>4, <1>5, <1>6, <1>7, <1>8, <1>9, <1>10 DEF KernelCalls, Moving

\* Every argument that names what a call changes, or where it goes, is
\* translated.
LEMMA NamedArguments ==
    ASSUME NEW c \in AllCalls, Sys(c) \in Changing \cup Moving,
           NEW i \in Changed(Sys(c))
    PROVE  i \in DOMAIN c.args /\ Modes(c)[i] # "raw"
<1>1. c.hook \in NamingHooks \/ (c.hook \in OpeningHooks /\ c.op \in {"open", "create"})
    BY HooksAssumption
<1>2. \/ Sys(c) \in {"rename", "link"} /\ Modes(c) = <<"save", "translate">>
      \/ Sys(c) = "symlink" /\ Modes(c) = <<"raw", "translate">>
      \/ Sys(c) \notin {"rename", "link", "symlink"} /\ Modes(c) = <<"translate">>
    BY <1>1 DEF NamingHooks, OpeningHooks, Changing, Moving, Modes, Sys, TwoPathHooks,
        OpenHooks, Open64Hooks, FreopenHooks, StatHooks, LstatHooks, EntryHooks, RenameHooks,
        SymlinkHooks, ReadlinkHooks, DirHooks, MetaHooks, OpenatHooks, FstatatHooks,
        ReadlinkatHooks, EntryatHooks, TwoPathatHooks, SymlinkatHooks, LinkHooks,
        MoreMetaHooks, LchownHooks
<1>3. c.args \in Seq(Path) /\ Len(c.args) = Len(Modes(c))
    BY HooksAssumption
<1>4. DOMAIN c.args = 1..Len(Modes(c))
    BY <1>3, LenProperties
<1>5. CASE Sys(c) \in {"rename", "link"}
    <2>1. Modes(c) = <<"save", "translate">> /\ i \in {1, 2}
        BY <1>2, <1>5 DEF Changed
    <2>2. QED BY <1>4, <2>1
<1>6. CASE Sys(c) = "symlink"
    <2>1. Modes(c) = <<"raw", "translate">> /\ i = 2
        BY <1>2, <1>6 DEF Changed
    <2>2. QED BY <1>4, <2>1
<1>7. CASE Sys(c) \notin {"rename", "link", "symlink"}
    <2>1. Modes(c) = <<"translate">> /\ i = 1
        BY <1>2, <1>7 DEF Changed
    <2>2. QED BY <1>4, <2>1
<1>8. QED BY <1>5, <1>6, <1>7

LEMMA SymlinkIsRaw ==
    ASSUME NEW c \in AllCalls, Sys(c) = "symlink"
    PROVE  Modes(c)[1] = "raw"
<1>1. c.hook \in SymlinkHooks \cup SymlinkatHooks
    BY HooksAssumption
    DEF NamingHooks, OpeningHooks, Sys, OpenHooks, Open64Hooks, FreopenHooks, StatHooks,
        LstatHooks, EntryHooks, RenameHooks, SymlinkHooks, ReadlinkHooks, DirHooks, MetaHooks,
        OpenatHooks, FstatatHooks, ReadlinkatHooks, EntryatHooks, TwoPathatHooks,
        SymlinkatHooks, LinkHooks, MoreMetaHooks, LchownHooks
<1>2. Modes(c) = <<"raw", "translate">>
    BY <1>1 DEF Modes, SymlinkHooks, SymlinkatHooks, TwoPathHooks, RenameHooks, LinkHooks,
        TwoPathatHooks, ReadlinkatHooks
<1>3. QED BY <1>2

\* What an argument that is translated names lies in the set.
LEMMA NamedWithin ==
    ASSUME NEW G, Closed(G), NEW calls, ArgumentsWithin(G, calls), Housed(G), TypeOK,
           NEW c \in AllCalls, Sys(c) \in calls, c.at = "fd" => dir # <<>>,
           NEW i \in DOMAIN c.args, Modes(c)[i] # "raw",
           NEW base, base = IF c.at = "fd" THEN dir ELSE cwd,
           Resolve(base, Intended(c, i)) \in Names
    PROVE  Resolve(base, Intended(c, i)) \in G
<1>1. base \in G /\ IsAbsolute(base)
    BY DEF Housed
<1>2. c.args[i] \in Path /\ Intended(c, i) = Translate(c.args[i]).path
    BY HooksAssumption, ElementOfSeq, LenProperties DEF Intended
<1>3. CASE IsAbsolute(c.args[i])
    <2>1. /\ IsAbsolute(Intended(c, i))
          /\ Clean(Intended(c, i)) \in Names => Clean(Intended(c, i)) \in G
        BY <1>2, <1>3 DEF ArgumentsWithin
    <2>2. Resolve(base, Intended(c, i)) = Clean(Intended(c, i))
        BY <2>1 DEF Resolve, IsAbsolute
    <2>3. QED BY <2>1, <2>2
<1>4. CASE ~IsAbsolute(c.args[i])
    <2>1. Intended(c, i) = c.args[i]
        BY <1>2, <1>4 DEF Translate
    <2>2. c.args[i] # <<>>
        <3>1. SUFFICES ASSUME c.args[i] = <<>> PROVE FALSE
            OBVIOUS
        <3>2. Resolve(base, Intended(c, i)) = <<>>
            BY <2>1, <3>1 DEF Resolve
        <3>3. QED BY <3>2, HooksAssumption DEF IsAbsolute
    <2>3. QED BY <1>1, <1>2, <1>4, <2>1, <2>2 DEF Closed
<1>5. QED BY <1>3, <1>4

\* A call leaves the guest in the set, and changes nothing outside it.
LEMMA EffectStays ==
    ASSUME NEW G, Closed(G), NEW calls, ArgumentsWithin(G, calls), Moving \subseteq calls,
           Housed(G), TypeOK,
           NEW c \in AllCalls, c.at = "fd" => dir # <<>>,
           Effect(c, [i \in DOMAIN c.args |-> Intended(c, i)])
    PROVE  /\ cwd' \in G /\ IsAbsolute(cwd')
           /\ dir' = dir \/ (dir' \in G /\ IsAbsolute(dir'))
           /\ Kept(fs')
           /\ Changing \subseteq calls => \A p \in Names : fs'[p] # fs[p] => p \in G
<1> DEFINE base  == IF c.at = "fd" THEN dir ELSE cwd
           texts == [i \in DOMAIN c.args |-> Intended(c, i)]
           where == [i \in DOMAIN c.args |-> Resolve(base, texts[i])]
           ans   == Perform(Sys(c), fs, texts, where, KernelText)
<1>1. /\ fs' = ans.fs
      /\ cwd' = IF Sys(c) = "chdir" /\ ans.ret.kind = "ok" THEN ans.dir ELSE cwd
      /\ dir' = IF Sys(c) = "opendir" /\ ans.ret.kind = "ok" THEN ans.dir ELSE dir
    BY DEF Effect
<1>2. Sys(c) \in KernelCalls /\ fs \in [Names -> Node] /\ Kept(fs) /\ LinksWithin(G)
    BY HooksAssumption DEF TypeOK, Housed, Closed
<1>3. Sys(c) = "symlink" => texts[1] \in LinkTexts
    <2> SUFFICES ASSUME Sys(c) = "symlink" PROVE texts[1] \in LinkTexts
        OBVIOUS
    <2>1. 1 \in DOMAIN c.args
        BY SymlinkHasText
    <2>2. Modes(c)[1] = "raw"
        BY SymlinkIsRaw
    <2>3. texts[1] = c.args[1]
        BY <2>1, <2>2 DEF Intended
    <2>4. QED BY <2>3 DEF LinkTexts
<1>4. ASSUME Sys(c) \in calls, Sys(c) \in Changing \cup Moving, NEW i \in Changed(Sys(c)),
             where[i] \in Names
      PROVE  where[i] \in G
    <2>1. i \in DOMAIN c.args /\ Modes(c)[i] # "raw"
        BY <1>4, NamedArguments
    <2>2. where[i] = Resolve(base, Intended(c, i))
        BY <2>1
    <2>3. QED BY <1>4, <2>1, <2>2, NamedWithin
<1> HIDE DEF texts, where, base
<1>5. Kept(fs')
    <2>1. LinksWithin(Names)
        BY DEF LinksWithin
    <2>2. Tame(fs, ans.fs, Names)
        BY <1>2, <1>3, <2>1, PerformTame
    <2>3. QED BY <1>1, <1>2, <2>2, TameKeeps
<1>6. ASSUME Changing \subseteq calls, NEW p \in Names, fs'[p] # fs[p]
      PROVE  p \in G
    <2>1. Tame(fs, ans.fs, G)
        BY <1>2, <1>3, <1>4, <1>6, PerformTame
    <2>2. QED BY <1>1, <1>6, <2>1 DEF Tame
<1>7. Sys(c) \in Moving /\ ans.ret.kind = "ok" => ans.dir \in G \cap Names
    <2> SUFFICES ASSUME Sys(c) \in Moving, ans.ret.kind = "ok"
                 PROVE  ans.dir \in G \cap Names
        OBVIOUS
    <2>1. where[1] \in Names => where[1] \in G
        BY <1>4 DEF Moving, Changed
    <2>2. ans = OpenDir(fs, where, KernelText)
        BY DEF Perform, Moving
    <2> HIDE DEF ans
    <2>3. QED BY <1>2, <2>1, <2>2, OpenDirStays
<1>8. /\ cwd \in G /\ IsAbsolute(cwd)
      /\ \A p \in Names : IsAbsolute(p)
    BY HooksAssumption DEF Housed
<1> HIDE DEF ans
<1>9. QED BY <1>1, <1>5, <1>6, <1>7, <1>8 DEF Moving

LEMMA InitHoused ==
    ASSUME NEW G, Closed(G), Init
    PROVE  Housed(G)
<1>1. cwd \in G /\ IsAbsolute(cwd) /\ dir = <<>>
    BY HooksAssumption DEF Init, Closed
<1>2. Kept(fs)
    BY DEF Init, Kept, LinkTexts
<1>3. \A t \in Threads : 1..depth[t] = {}
    BY DEF Init
<1>4. QED BY <1>1, <1>2, <1>3 DEF Housed

\* The steps that prepare arguments.
LEMMA PrepareHoused ==
    ASSUME NEW G, Housed(G), TypeOK, NEW t \in Threads, depth[t] > 0,
           NEW a, a.call = Top(t).call,
           act' = [act EXCEPT ![t][depth[t]] = a],
           UNCHANGED <<depth, fs, cwd, dir>>
    PROVE  Housed(G)'
<1>1. depth[t] \in 1..MaxDepth
    BY TopTyped
<1>2. \A u \in Threads : \A d \in 1..MaxDepth :
            act'[u][d] = IF u = t /\ d = depth[t] THEN a ELSE act[u][d]
    <2>1. act \in [Threads -> [1..MaxDepth -> Activation]]
        BY DEF TypeOK
    <2>2. QED BY <1>1, <2>1
<1>3. ASSUME NEW u \in Threads, NEW d \in 1..depth[u]
      PROVE  act'[u][d].call = act[u][d].call
    <2>1. d \in 1..MaxDepth
        BY HooksAssumption DEF TypeOK
    <2>2. CASE u = t /\ d = depth[t]
        BY <1>2, <2>1, <2>2 DEF Top
    <2>3. CASE ~(u = t /\ d = depth[t])
        BY <1>2, <2>1, <2>3
    <2>4. QED BY <2>2, <2>3
<1>4. QED BY <1>3 DEF Housed, Kept, Begun, Faked

LEMMA EnterHoused ==
    ASSUME NEW G, Housed(G), TypeOK, NEW t \in Threads, Enter(t)
    PROVE  Housed(G)'
<1> DEFINE n == depth[t] + 1
<1>1. PICK c \in Callable(t) :
        /\ ~Faked(c) /\ (c.at = "fd" => dir # <<>>)
        /\ depth' = [depth EXCEPT ![t] = @ + 1]
        /\ act' = [act EXCEPT ![t][n] = [call |-> c, ptr |-> <<>>, copying |-> FALSE]]
    BY DEF Enter
<1> DEFINE a == [call |-> c, ptr |-> <<>>, copying |-> FALSE]
<1>2. a \in Activation
    <2>1. c \in AllCalls
        BY DEF Callable, AllCalls
    <2>2. QED BY <2>1, EmptySeq DEF Activation
<1>3. n \in 1..MaxDepth /\ depth[t] \in 0..MaxDepth
    BY HooksAssumption DEF TypeOK, Enter
<1>4. \A u \in Threads : \A d \in 1..MaxDepth :
            act'[u][d] = IF u = t /\ d = n THEN a ELSE act[u][d]
    <2>1. act \in [Threads -> [1..MaxDepth -> Activation]]
        BY DEF TypeOK
    <2>2. QED BY <1>1, <1>2, <1>3, <2>1, Replaced, ZenonT(60)
<1>5. \A u \in Threads :
            /\ depth[u] \in 0..MaxDepth
            /\ depth'[u] = IF u = t THEN n ELSE depth[u]
    BY <1>1, <1>3 DEF TypeOK
<1>6. ASSUME NEW u \in Threads, NEW d \in 1..depth'[u]
      PROVE  ~Faked(act'[u][d].call) /\ (act'[u][d].call.at = "fd" => dir # <<>>)
    <2>1. d \in 1..MaxDepth
        BY <1>3, <1>5, HooksAssumption
    <2>2. CASE u = t /\ d = n
        BY <1>1, <1>4, <1>6, <2>1, <2>2
    <2>3. CASE ~(u = t /\ d = n)
        <3>1. d \in 1..depth[u]
            BY <1>3, <1>5, <2>3
        <3>2. act'[u][d] = act[u][d]
            BY <1>4, <2>1, <2>3
        <3>3. QED BY <3>1, <3>2 DEF Housed, Begun
    <2>4. QED BY <2>2, <2>3
<1>7. UNCHANGED <<fs, cwd, dir>>
    BY DEF Enter
<1>8. QED BY <1>6, <1>7 DEF Housed, Kept, Begun, Faked

LEMMA SyscallHoused ==
    ASSUME NEW G, Closed(G), NEW calls, ArgumentsWithin(G, calls), Moving \subseteq calls,
           Housed(G), TypeOK, PointerDiscipline, PointersIntact,
           NEW t \in Threads, Syscall(t)
    PROVE  /\ Housed(G)'
           /\ Changing \subseteq calls => \A p \in Names : fs'[p] # fs[p] => p \in G
<1>1. /\ depth[t] > 0
      /\ act' = [act EXCEPT ![t][depth[t]] = Idle]
      /\ depth' = [depth EXCEPT ![t] = @ - 1]
    BY DEF Syscall
<1>2. depth[t] \in 1..MaxDepth
    BY <1>1, TopTyped
<1>3. \A u \in Threads : \A d \in 1..MaxDepth :
            act'[u][d] = IF u = t /\ d = depth[t] THEN Idle ELSE act[u][d]
    <2>1. act \in [Threads -> [1..MaxDepth -> Activation]]
        BY DEF TypeOK
    <2>2. QED BY <1>1, <1>2, <2>1, IdleTyped, Replaced, ZenonT(60)
<1>4. \A u \in Threads :
            /\ depth[u] \in 0..MaxDepth
            /\ depth'[u] = IF u = t THEN depth[t] - 1 ELSE depth[u]
    BY <1>1 DEF TypeOK
<1>5. /\ Top(t).call \in AllCalls
      /\ Effect(Top(t).call, [i \in DOMAIN Top(t).call.args |-> Intended(Top(t).call, i)])
    BY SyscallActs
<1>6. Top(t).call.at = "fd" => dir # <<>>
    <2>1. depth[t] \in 1..depth[t]
        BY <1>2
    <2>2. QED BY <2>1 DEF Housed, Begun, Top
<1>7. /\ cwd' \in G /\ IsAbsolute(cwd')
      /\ dir' = dir \/ (dir' \in G /\ IsAbsolute(dir'))
      /\ Kept(fs')
      /\ Changing \subseteq calls => \A p \in Names : fs'[p] # fs[p] => p \in G
    BY <1>5, <1>6, EffectStays
<1>8. ASSUME NEW u \in Threads, NEW d \in 1..depth'[u]
      PROVE  ~Faked(act'[u][d].call) /\ (act'[u][d].call.at = "fd" => dir' # <<>>)
    <2>1. d \in 1..depth[u] /\ d \in 1..MaxDepth /\ ~(u = t /\ d = depth[t])
        BY <1>2, <1>4, HooksAssumption
    <2>2. act'[u][d] = act[u][d]
        BY <1>3, <2>1
    <2>3. ~Faked(act[u][d].call) /\ (act[u][d].call.at = "fd" => dir # <<>>)
        BY <2>1 DEF Housed, Begun
    <2>4. QED BY <1>7, <2>2, <2>3 DEF IsAbsolute
<1>9. dir' # <<>> => dir' \in G /\ IsAbsolute(dir')
    BY <1>7 DEF Housed
<1>10. QED BY <1>7, <1>8, <1>9 DEF Housed, Kept, Begun, Faked

LEMMA NextHoused ==
    ASSUME NEW G, Closed(G), NEW calls, ArgumentsWithin(G, calls), Moving \subseteq calls,
           Housed(G), TypeOK, PointerDiscipline, PointersIntact, [Next]_vars
    PROVE  /\ Housed(G)'
           /\ Changing \subseteq calls => \A p \in Names : fs'[p] # fs[p] => p \in G
<1>1. CASE UNCHANGED vars
    BY <1>1 DEF vars, Housed, Kept, Begun, Faked
<1>2. ASSUME NEW t \in Threads, Step(t)
      PROVE  /\ Housed(G)'
             /\ Changing \subseteq calls => \A p \in Names : fs'[p] # fs[p] => p \in G
    <2>1. CASE Enter(t)
        BY <2>1, EnterHoused DEF Enter
    <2>2. CASE OpenFake(t)
        BY <2>2 DEF OpenFake, Housed, Kept, Begun, Faked
    <2>3. CASE TranslateArg(t) \/ CopyArg(t) \/ PassArg(t)
        <3>1. /\ depth[t] > 0 /\ UNCHANGED <<depth, fs, cwd, dir>>
              /\ \E a : a.call = Top(t).call /\ act' = [act EXCEPT ![t][depth[t]] = a]
            BY <2>3 DEF TranslateArg, CopyArg, PassArg, Preparing
        <3>2. QED BY <3>1, PrepareHoused
    <2>4. CASE Syscall(t)
        BY <2>4, SyscallHoused
    <2>5. QED BY <1>2, <2>1, <2>2, <2>3, <2>4 DEF Step
<1>3. QED BY <1>1, <1>2 DEF Next

(***************************************************************************)
(* The two sets: the guest's part of the host, and the paths that are not  *)
(* rewritten                                                               *)
(***************************************************************************)

LEMMA DropFirst ==
    ASSUME NEW p \in Path, NEW n \in Nat, n < Len(p)
    PROVE  Drop(p, n)[1] = p[n + 1]
<1>1. Len(p) \in Nat
    BY LenProperties DEF Path
<1>2. \A i \in (n + 1)..Len(p) : p[i] \in Fragment
    BY <1>1, ElementOfSeq DEF Path
<1>3. \A i \in 1..(Len(p) - (n + 1) + 1) :
        SubSeq(p, n + 1, Len(p))[i] = p[(n + 1) + i - 1]
    BY <1>1, <1>2, SubSeqProperties
<1>4. QED BY <1>1, <1>3 DEF Drop

\* A directory named without a slash at its end.
Tidy(d) == d = <<>> \/ d[Len(d)] # Slash

LEMMA AbsoluteAppend ==
    ASSUME NEW p \in Path, IsAbsolute(p), NEW r \in Path
    PROVE  p \o r \in Path /\ IsAbsolute(p \o r)
<1>1. Len(p) \in Nat /\ Len(r) \in Nat /\ Len(p) > 0
    BY LenProperties, EmptySeq DEF IsAbsolute, Path
<1>2. p \o r \in Path /\ Len(p \o r) = Len(p) + Len(r) /\ (p \o r)[1] = p[1]
    BY <1>1, ConcatProperties DEF Path
<1>3. p \o r # <<>>
    BY <1>1, <1>2, EmptySeq DEF Path
<1>4. QED BY <1>2, <1>3 DEF IsAbsolute

LEMMA JoinShape ==
    ASSUME NEW p \in Path, NEW q \in Path, IsAbsolute(p), ~IsAbsolute(q)
    PROVE  \E r \in Path : /\ Join(p, q) = p \o r
                           /\ p[Len(p)] # Slash => IsAbsolute(r)
<1>1. p # <<>> /\ Last(p) = p[Len(p)]
    BY DEF IsAbsolute, Last
<1>2. CASE Last(p) = Slash
    BY <1>1, <1>2 DEF Join
<1>3. CASE Last(p) # Slash
    <2>1. <<Slash>> \in Path /\ Len(<<Slash>>) = 1 /\ <<Slash>>[1] = Slash
        BY PathAssumption DEF Path
    <2>2. PICK s \in Path : s = <<Slash>>
        BY <2>1
    <2>3. s \o q \in Path /\ IsAbsolute(s \o q)
        <3>1. IsAbsolute(s)
            BY <2>1, <2>2, EmptySeq DEF IsAbsolute
        <3>2. QED BY <3>1, AbsoluteAppend
    <2>4. Join(p, q) = (p \o s) \o q
        BY <1>3, <2>2 DEF Join
    <2>5. (p \o s) \o q = p \o (s \o q)
        BY Associates DEF Associate
    <2>6. QED BY <2>3, <2>4, <2>5
<1>4. QED BY <1>2, <1>3

\* Cleaning an absolute path cuts at most a slash.
LEMMA CleanShape ==
    ASSUME NEW p \in Path, IsAbsolute(p)
    PROVE  /\ Clean(p) \in Path /\ IsAbsolute(Clean(p))
           /\ \/ Clean(p) = p
              \/ /\ p[Len(p)] = Slash /\ Len(p) > 1 /\ Len(Clean(p)) = Len(p) - 1
                 /\ \A i \in 1..(Len(p) - 1) : Clean(p)[i] = p[i]
<1>1. p # <<>> /\ Last(p) = p[Len(p)] /\ Len(p) \in Nat
    BY LenProperties DEF IsAbsolute, Last, Path
<1>2. CASE Len(p) > 1 /\ Last(p) = Slash
    <2>1. Clean(p) = SubSeq(p, 1, Len(p) - 1)
        BY <1>2 DEF Clean, Front
    <2>2. \A i \in 1..(Len(p) - 1) : p[i] \in Fragment
        BY <1>1, ElementOfSeq DEF Path
    <2>3. /\ Clean(p) \in Path /\ Len(Clean(p)) = Len(p) - 1
          /\ \A i \in 1..(Len(p) - 1) : Clean(p)[i] = p[i]
        <3>1. 1 \in Int /\ Len(p) - 1 \in Int /\ 1 <= (Len(p) - 1) + 1
            BY <1>1, <1>2
        <3>2. QED BY <1>1, <1>2, <2>1, <2>2, <3>1, SubSeqProperties DEF Path
    <2>4. Clean(p) # <<>>
        BY <1>1, <1>2, <2>3, EmptySeq DEF Path
    <2>5. QED BY <1>1, <1>2, <2>3, <2>4 DEF IsAbsolute
<1>3. CASE ~(Len(p) > 1 /\ Last(p) = Slash)
    BY <1>3 DEF Clean
<1>4. QED BY <1>2, <1>3

LEMMA PrefixOfClean ==
    ASSUME NEW d \in Path, Tidy(d), NEW p \in Path, IsAbsolute(p), IsPrefix(d, p)
    PROVE  IsPrefix(d, Clean(p))
<1>1. Len(d) \in Nat /\ Len(p) \in Nat /\ Clean(p) \in Path
    BY CleanShape, LenProperties DEF Path
<1>2. Len(d) <= Len(p) /\ \A i \in 1..Len(d) : d[i] = p[i]
    BY PrefixByIndex
<1>3. CASE Clean(p) = p
    BY <1>3
<1>4. CASE Clean(p) # p
    <2>1. /\ p[Len(p)] = Slash /\ Len(p) > 1 /\ Len(Clean(p)) = Len(p) - 1
          /\ \A i \in 1..(Len(p) - 1) : Clean(p)[i] = p[i]
        BY <1>4, CleanShape
    <2>2. Len(d) # Len(p)
        <3> SUFFICES ASSUME Len(d) = Len(p) PROVE FALSE
            OBVIOUS
        <3>1. d # <<>> /\ d[Len(d)] = Slash
            BY <1>1, <1>2, <2>1, EmptySeq
        <3>2. QED BY <3>1 DEF Tidy
    <2>3. Len(d) <= Len(Clean(p)) /\ \A i \in 1..Len(d) : d[i] = Clean(p)[i]
        BY <1>1, <1>2, <2>1, <2>2
    <2>4. QED BY <1>1, <2>3, PrefixByIndex
<1>5. QED BY <1>3, <1>4

LEMMA UnderClean ==
    ASSUME NEW d \in Path, Tidy(d), NEW p \in Path, IsAbsolute(p), Under(d, p)
    PROVE  Under(d, Clean(p))
<1>1. IsPrefix(d, Clean(p))
    BY PrefixOfClean DEF Under
<1>2. Len(d) \in Nat /\ Len(p) \in Nat /\ Clean(p) \in Path
    BY CleanShape, LenProperties DEF Path
<1>3. Len(Clean(p)) > Len(d) => Len(p) > Len(d) /\ Clean(p)[Len(d) + 1] = p[Len(d) + 1]
    BY <1>2, CleanShape
<1>4. QED BY <1>1, <1>3 DEF Under

\* What is below a directory stays below it when something is appended.
LEMMA UnderAppend ==
    ASSUME NEW d \in Path, NEW p \in Path, Under(d, p), NEW r \in Path,
           Len(p) > Len(d) \/ IsAbsolute(r)
    PROVE  Under(d, p \o r)
<1>1. Len(d) \in Nat /\ Len(p) \in Nat /\ Len(r) \in Nat
    BY LenProperties DEF Path
<1>2. /\ p \o r \in Path /\ Len(p \o r) = Len(p) + Len(r)
      /\ \A i \in 1..Len(p) : (p \o r)[i] = p[i]
      /\ \A i \in 1..Len(r) : (p \o r)[Len(p) + i] = r[i]
    BY <1>1, ConcatProperties DEF Path
<1>3. IsPrefix(d, p \o r) /\ Len(d) <= Len(p)
    BY PrefixOfConcat, PrefixByIndex DEF Under
<1>4. CASE Len(p) > Len(d)
    <2>1. (p \o r)[Len(d) + 1] = p[Len(d) + 1]
        BY <1>1, <1>2, <1>4
    <2>2. QED BY <1>3, <1>4, <2>1 DEF Under
<1>5. CASE Len(p) = Len(d) /\ IsAbsolute(r)
    <2>1. Len(r) > 0 /\ r[1] = Slash
        BY <1>1, <1>5, EmptySeq DEF IsAbsolute, Path
    <2>2. (p \o r)[Len(d) + 1] = Slash
        BY <1>1, <1>2, <1>5, <2>1
    <2>3. QED BY <1>3, <2>2 DEF Under
<1>6. QED BY <1>1, <1>3, <1>4, <1>5

LEMMA UnderResolve ==
    ASSUME NEW d \in Path, Tidy(d), NEW p \in Path, IsAbsolute(p), Under(d, p),
           NEW q \in Path, q # <<>>, ~IsAbsolute(q)
    PROVE  Resolve(p, q) \in Path /\ Under(d, Resolve(p, q))
<1>1. PICK r \in Path : Join(p, q) = p \o r /\ (p[Len(p)] # Slash => IsAbsolute(r))
    BY JoinShape
<1>2. Len(d) \in Nat /\ Len(p) \in Nat /\ Len(d) <= Len(p)
    BY LenProperties, PrefixByIndex DEF Path, Under
<1>3. Len(p) > Len(d) \/ IsAbsolute(r)
    <2> SUFFICES ASSUME Len(p) = Len(d) PROVE p[Len(p)] # Slash
        BY <1>1, <1>2
    <2>1. \A i \in 1..Len(d) : d[i] = p[i]
        BY PrefixByIndex DEF Under
    <2>2. d # <<>>
        BY EmptySeq DEF IsAbsolute, Path
    <2>3. Len(d) > 0
        BY <1>2, <2>2, EmptySeq DEF Path
    <2>4. QED BY <1>2, <2>1, <2>2, <2>3 DEF Tidy
<1>4. p \o r \in Path /\ IsAbsolute(p \o r)
    BY AbsoluteAppend
<1>5. Resolve(p, q) = Clean(p \o r)
    BY <1>1 DEF Resolve
<1>6. QED BY <1>3, <1>4, <1>5, UnderAppend, UnderClean, CleanShape

\* Directories without a slash at their end.
TidyMounts ==
    /\ Tidy(Rootfs) /\ \A d \in HostDirs : Tidy(d)
    /\ \A i \in 1..Len(Binds) : Tidy(Binds[i].src)

\* The absolute paths these calls are given are rewritten, or lie where the
\* guest belongs as they are.
Reaching(calls) ==
    \A c \in AllCalls : \A i \in DOMAIN c.args :
        Sys(c) \in calls /\ Modes(c)[i] # "raw" /\ IsAbsolute(c.args[i]) =>
            Translate(c.args[i]).place = "tlbuf" \/ Territory(c.args[i])

GuestsPart   == {p \in Path : Territory(p)}
NotRewritten == {p \in Path : PassesThrough(p)}

\* The guest's part of the host, for a rootfs and binds named by absolute
\* paths.
LEMMA PartWithin ==
    ASSUME TidyMounts, Reaching(Changing \cup Moving),
           Rootfs = <<>> \/ IsAbsolute(Rootfs),
           \A i \in 1..Len(Binds) : IsAbsolute(Binds[i].src)
    PROVE  ArgumentsWithin(GuestsPart, Changing \cup Moving)
<1> SUFFICES ASSUME NEW c \in AllCalls, NEW i \in DOMAIN c.args,
                    Sys(c) \in Changing \cup Moving, Modes(c)[i] # "raw",
                    IsAbsolute(c.args[i])
             PROVE  /\ IsAbsolute(Translate(c.args[i]).path)
                    /\ Clean(Translate(c.args[i]).path) \in GuestsPart
    BY DEF ArgumentsWithin
<1> DEFINE p == c.args[i]
           t == Translate(p).path
<1>1. p \in Path /\ t \in Path
    BY HooksAssumption, ElementOfSeq, LenProperties, TranslateTyped
<1>2. IsAbsolute(t) /\ Territory(t)
    <2>1. CASE Translate(p).place # "tlbuf"
        <3>1. t = p
            BY <2>1 DEF Translate
        <3>2. Territory(p)
            BY <2>1 DEF Reaching
        <3>3. QED BY <3>1, <3>2
    <2>2. CASE Translate(p).place = "tlbuf"
        <3>1. t = Image(p) /\ ~PassesThrough(p)
            BY <2>2 DEF Translate
        <3>2. CASE FirstBind(p) = 0
            <4>1. PICK s \in Path : s = Rootfs
                BY PathAssumption
            <4>2. t = s \o p
                BY <3>1, <3>2, <4>1 DEF Image
            <4>3. IsAbsolute(s)
                BY <1>1, <3>1, <4>1, RootfsNotEmpty
            <4>4. Under(s, s)
                BY <4>1, PrefixOfItself, LenProperties DEF Under, Path
            <4>5. Under(s, s \o p)
                BY <1>1, <4>4, UnderAppend
            <4>6. QED BY <1>1, <4>1, <4>2, <4>3, <4>5, AbsoluteAppend DEF Territory
        <3>3. CASE FirstBind(p) # 0
            <4>1. PICK b \in 1..Len(Binds) : b = FirstBind(p) /\ Under(Binds[b].dst, p)
                BY <1>1, <3>3, FirstBindMatches
            <4>2. PICK s \in Path, e \in Path : s = Binds[b].src /\ e = Binds[b].dst
                BY MountsTyped
            <4>3. t = s \o Drop(p, Len(e))
                BY <3>1, <3>3, <4>1, <4>2 DEF Image
            <4>4. /\ Drop(p, Len(e)) \in Path /\ Len(Drop(p, Len(e))) = Len(p) - Len(e)
                  /\ Len(e) <= Len(p) /\ Len(e) \in Nat /\ Len(p) \in Nat
                BY <1>1, <4>1, <4>2, DropTyped, PrefixByIndex, LenProperties DEF Under, Path
            <4>5. IsAbsolute(s)
                BY <4>2
            <4>6. Under(s, s)
                BY PrefixOfItself, LenProperties DEF Under, Path
            <4>7. Under(s, t)
                <5>1. CASE Len(p) = Len(e)
                    <6>1. Drop(p, Len(e)) = <<>>
                        BY <4>4, <5>1, EmptySeq DEF Path
                    <6>2. t = s
                        BY <4>3, <6>1, ConcatEmptySeq DEF Path
                    <6>3. QED BY <4>6, <6>2
                <5>2. CASE Len(p) > Len(e)
                    <6>1. p[Len(e) + 1] = Slash
                        BY <4>1, <4>2, <5>2 DEF Under
                    <6>2. Drop(p, Len(e))[1] = p[Len(e) + 1]
                        BY <1>1, <4>4, <5>2, DropFirst
                    <6>3. IsAbsolute(Drop(p, Len(e)))
                        BY <4>4, <5>2, <6>1, <6>2, EmptySeq DEF IsAbsolute
                    <6>4. QED BY <4>3, <4>4, <4>6, <6>3, UnderAppend
                <5>3. QED BY <4>4, <5>1, <5>2
            <4>8. IsAbsolute(t)
                BY <4>3, <4>4, <4>5, AbsoluteAppend
            <4>9. QED BY <4>2, <4>7, <4>8 DEF Territory
        <3>4. QED BY <3>2, <3>3
    <2>3. QED BY <2>1, <2>2
<1>3. Territory(Clean(t))
    <2>1. ASSUME NEW d \in Path, Tidy(d), Under(d, t)
          PROVE  Under(d, Clean(t))
        BY <1>1, <1>2, <2>1, UnderClean
    <2>2. /\ Rootfs \in Path /\ HostDirs \subseteq Path
          /\ \A k \in 1..Len(Binds) : Binds[k].src \in Path
        BY PathAssumption, MountsTyped
    <2>3. QED BY <1>2, <2>1, <2>2 DEF Territory, TidyMounts
<1>4. QED BY <1>1, <1>2, <1>3, CleanShape DEF GuestsPart

\* No name leads out of the guest's part but through a link.
LEMMA PartClosed ==
    ASSUME TidyMounts, Territory(InitCwd), LinksWithin(GuestsPart)
    PROVE  Closed(GuestsPart)
<1>1. InitCwd \in GuestsPart
    BY HooksAssumption DEF GuestsPart
<1>2. ASSUME NEW p \in GuestsPart, NEW q \in Path,
             IsAbsolute(p), q # <<>>, ~IsAbsolute(q)
      PROVE  Resolve(p, q) \in GuestsPart
    <2>1. p \in Path /\ Territory(p)
        BY DEF GuestsPart
    <2>2. ASSUME NEW d \in Path, Tidy(d), Under(d, p)
          PROVE  Resolve(p, q) \in Path /\ Under(d, Resolve(p, q))
        BY <1>2, <2>1, <2>2, UnderResolve
    <2>3. /\ Rootfs \in Path /\ HostDirs \subseteq Path
          /\ \A k \in 1..Len(Binds) : Binds[k].src \in Path
        BY PathAssumption, MountsTyped
    <2>4. QED BY <2>1, <2>2, <2>3 DEF Territory, TidyMounts, GuestsPart
<1>3. QED BY <1>1, <1>2 DEF Closed

\* The paths that are not rewritten.
LEMMA KeptWithin ==
    ASSUME TidyMounts,
           \A c \in AllCalls : \A i \in DOMAIN c.args :
              Sys(c) \in Moving /\ IsAbsolute(c.args[i]) =>
                 LET t == Translate(c.args[i]).path IN IsAbsolute(t) /\ PassesThrough(t)
    PROVE  ArgumentsWithin(NotRewritten, Moving)
<1> SUFFICES ASSUME NEW c \in AllCalls, NEW i \in DOMAIN c.args,
                    Sys(c) \in Moving, IsAbsolute(c.args[i]),
                    NEW t \in Path, t = Translate(c.args[i]).path
             PROVE  IsAbsolute(t) /\ Clean(t) \in NotRewritten
    <2>1. \A c \in AllCalls : \A i \in DOMAIN c.args : Translate(c.args[i]).path \in Path
        BY HooksAssumption, ElementOfSeq, LenProperties, TranslateTyped
    <2>2. QED BY <2>1 DEF ArgumentsWithin
<1>1. IsAbsolute(t) /\ PassesThrough(t)
    OBVIOUS
<1>2. ASSUME NEW d \in Path, Tidy(d), IsPrefix(d, t)
      PROVE  IsPrefix(d, Clean(t))
    BY <1>1, <1>2, PrefixOfClean
<1>3. PassesThrough(Clean(t))
    BY <1>1, <1>2, PathAssumption DEF PassesThrough, TidyMounts
<1>4. QED BY <1>1, <1>3, CleanShape DEF NotRewritten

LEMMA KeptClosed ==
    ASSUME TidyMounts, PassesThrough(InitCwd), LinksWithin(NotRewritten)
    PROVE  Closed(NotRewritten)
<1>1. InitCwd \in NotRewritten
    BY HooksAssumption DEF NotRewritten
<1>2. ASSUME NEW p \in NotRewritten, NEW q \in Path,
             IsAbsolute(p), q # <<>>, ~IsAbsolute(q)
      PROVE  Resolve(p, q) \in NotRewritten
    <2>1. p \in Path /\ PassesThrough(p)
        BY DEF NotRewritten
    <2>2. PICK r \in Path : Join(p, q) = p \o r
        BY <1>2, <2>1, JoinShape
    <2>3. p \o r \in Path /\ IsAbsolute(p \o r) /\ Resolve(p, q) = Clean(p \o r)
        BY <1>2, <2>1, <2>2, AbsoluteAppend DEF Resolve
    <2>4. PassesThrough(p \o r)
        BY <2>1, PassesThroughBelow
    <2>5. ASSUME NEW d \in Path, Tidy(d), IsPrefix(d, p \o r)
          PROVE  IsPrefix(d, Clean(p \o r))
        BY <2>3, <2>5, PrefixOfClean
    <2>6. PassesThrough(Clean(p \o r))
        BY <2>4, <2>5, PathAssumption DEF PassesThrough, TidyMounts
    <2>7. QED BY <2>3, <2>6, CleanShape DEF NotRewritten
<1>3. QED BY <1>1, <1>2 DEF Closed

\* The guest stays where it belongs: whatever directory it works in and
\* however its threads' calls interleave, no call creates, replaces or
\* removes anything outside the rootfs, the host directories and the sources
\* of the binds (translate, lib.rs:184-236).  What this asks for is what the
\* code does not see to by itself: a rootfs and binds with absolute paths,
\* arguments that fit TL_BUF and do not merely share the first bytes of a
\* path that is let through, links that lead inside.
THEOREM HooksConfined ==
    ASSUME QuietHandlers, TidyMounts,
           Rootfs = <<>> \/ IsAbsolute(Rootfs),
           \A i \in 1..Len(Binds) : IsAbsolute(Binds[i].src),
           Territory(InitCwd),
           Reaching(Changing \cup Moving), LinksWithin(GuestsPart)
    PROVE  Spec => Confined
<1> DEFINE IInv == Housed(GuestsPart)
           Kinds == Changing \cup Moving
           Inside == \A p \in Names : fs'[p] # fs[p] => Territory(p)
<1>1. Closed(GuestsPart) /\ ArgumentsWithin(GuestsPart, Kinds)
    BY PartClosed, PartWithin
<1>2. Init => IInv
    BY <1>1, InitHoused
<1>3. TypeOK /\ (PointerDiscipline /\ PointersIntact) /\ IInv /\ [Next]_vars
        => IInv' /\ Inside
    <2>1. Moving \subseteq Kinds /\ Changing \subseteq Kinds
        OBVIOUS
    <2>2. \A p \in GuestsPart : Territory(p)
        BY DEF GuestsPart
    <2> HIDE DEF Kinds
    <2>3. QED BY <1>1, <2>1, <2>2, NextHoused
<1>4. Spec => []TypeOK
    BY TypeCorrect
<1>5. Spec => [](PointerDiscipline /\ PointersIntact)
    BY PointersStayIntact
<1> HIDE DEF IInv
<1>6. QED BY <1>2, <1>3, <1>4, <1>5, PTL DEF Spec, Confined

\* getcwd is not hooked, and need not be: the host path of the working
\* directory is one that translate leaves alone, so that it names the same
\* directory when the guest hands it to a hook (lib.rs:184-236).  Only the
\* calls that move about matter; a directory outside the rootfs that a bind
\* leads to is what the hypothesis excludes.
THEOREM CwdIsNeverRewritten ==
    ASSUME QuietHandlers, TidyMounts, PassesThrough(InitCwd), LinksWithin(NotRewritten),
           \A c \in AllCalls : \A i \in DOMAIN c.args :
              Sys(c) \in Moving /\ IsAbsolute(c.args[i]) =>
                 LET t == Translate(c.args[i]).path IN IsAbsolute(t) /\ PassesThrough(t)
    PROVE  Spec => []CwdSurvives
<1> DEFINE IInv == Housed(NotRewritten)
<1>1. Closed(NotRewritten) /\ ArgumentsWithin(NotRewritten, Moving)
    BY KeptClosed, KeptWithin
<1>2. Init => IInv
    BY <1>1, InitHoused
<1>3. TypeOK /\ (PointerDiscipline /\ PointersIntact) /\ IInv /\ [Next]_vars => IInv'
    BY <1>1, NextHoused
<1>4. IInv => CwdSurvives
    BY DEF Housed, NotRewritten, CwdSurvives, Translate
<1>5. Spec => []TypeOK
    BY TypeCorrect
<1>6. Spec => [](PointerDiscipline /\ PointersIntact)
    BY PointersStayIntact
<1> HIDE DEF IInv
<1>7. QED BY <1>2, <1>3, <1>4, <1>5, <1>6, PTL DEF Spec

(***************************************************************************)
(* The guest's view                                                        *)
(***************************************************************************)

\* The calls are what their hooks stand for, and those that are answered
\* with a made-up file are those that open one.
SameCalls ==
    \A c \in AllCalls :
        /\ c.op = Sys(c)
        /\ Faked(c) <=> c.op \in {"open", "create"} /\ c.args[1] \in FakeFiles

\* Two host paths the kernel treats alike: one path, or two that nothing can
\* have.
Alike(p, q) == p = q \/ (p \notin Names /\ q \notin Names)

\* From every directory of a set, each path of a call by itself is sent where
\* the guest means it.
SamePlaces(G) ==
    \A c \in AllCalls : \A i \in Changed(Sys(c)) : \A d \in G :
        Alike(Resolve(d, Intended(c, i)), View!Meant(d, c.args[i]))

\* What links hold leads the kernel where it leads the guest, and is shown as
\* the guest's own name of it.
SameLinks ==
    \A t \in LinkTexts :
        /\ IsAbsolute(t) => /\ IsAbsolute(View!HostBehind(t))
                            /\ Clean(View!HostBehind(t)) = Clean(t)
        /\ StripRootfs(t) = View!GuestName(t)

\* RootView has HostKernel's operators by its own names.
LEMMA OneKernel ==
    /\ View!NoCall = NoCall /\ View!Absent = Absent /\ View!Dir = Dir
    /\ \A r : View!Result(r) = Result(r)
    /\ \A t : View!Link(t) = Link(t)
    /\ \A i : View!File(i) = File(i)
    /\ \A f, r : View!Answer(f, r) = Answer(f, r)
    /\ \A f, p : View!At(f, p) = At(f, p)
BY DEF View!NoCall, NoCall, View!Absent, Absent, View!Dir, Dir, View!Result, Result,
       View!Link, Link, View!File, File, View!Answer, Answer, View!At, At

LEMMA OnePathWalk ==
    /\ \A p : View!IsAbsolute(p) = IsAbsolute(p)
    /\ \A p : View!Clean(p) = Clean(p)
    /\ \A d, p : View!Resolve(d, p) = Resolve(d, p)
    /\ \A p : View!Parent(p) = Parent(p)
BY DEF View!IsAbsolute, IsAbsolute, View!Clean, Clean, View!Resolve, Resolve, View!Join, Join,
       View!Parent, Parent, View!Last, Last, View!Front, Front

LEMMA FollowSame ==
    ASSUME SameLinks, NEW f, Kept(f), NEW p
    PROVE  Follow(f, p, KernelText) = View!Follow(f, p, View!HostBehind)
<1>1. CASE At(f, p).kind # "link"
    BY <1>1, OneKernel DEF Follow, View!Follow
<1>2. CASE At(f, p).kind = "link"
    <2> DEFINE t == At(f, p).text
               h == View!HostBehind(t)
    <2>1. t \in LinkTexts
        BY <1>2, PresentIsNamed, NodesApart DEF Kept
    <2>2. View!Follow(f, p, View!HostBehind) = Resolve(Parent(p), IF IsAbsolute(t) THEN h ELSE t)
        BY <1>2, OneKernel, OnePathWalk DEF View!Follow
    <2>3. CASE IsAbsolute(t)
        <3>1. IsAbsolute(h) /\ Clean(h) = Clean(t)
            BY <2>1, <2>3 DEF SameLinks
        <3>2. Resolve(Parent(p), h) = Resolve(Parent(p), t)
            <4> HIDE DEF h, t
            <4>1. QED BY <2>3, <3>1 DEF Resolve, IsAbsolute
        <3>3. QED BY <1>2, <2>2, <2>3, <3>2 DEF Follow, KernelText
    <2>4. CASE ~IsAbsolute(t)
        BY <1>2, <2>2, <2>4 DEF Follow
    <2>5. QED BY <2>3, <2>4
<1>3. QED BY <1>1, <1>2

LEMMA FollowAlike ==
    ASSUME SameLinks, NEW f, Kept(f), NEW p, NEW q, Alike(p, q)
    PROVE  Alike(Follow(f, p, KernelText), View!Follow(f, q, View!HostBehind))
<1>1. CASE p = q
    BY <1>1, FollowSame DEF Alike
<1>2. CASE p \notin Names /\ q \notin Names
    <2>1. At(f, p).kind # "link" /\ View!At(f, q).kind # "link"
        BY <1>2, NodesApart, OneKernel DEF At
    <2>2. QED BY <1>2, <2>1 DEF Follow, View!Follow, Alike
<1>3. QED BY <1>1, <1>2 DEF Alike

\* What is there is the same at both.
LEMMA AlikeAt ==
    ASSUME NEW f, NEW p, NEW q, Alike(p, q)
    PROVE  /\ At(f, p) = View!At(f, q)
           /\ p \in Names <=> q \in Names
           /\ p \in Names => p = q
           /\ At(f, p).kind # "none" => p = q
           /\ At(f, p) = Dir => p = q
BY NodesApart, OneKernel DEF Alike, At

\* The kernel does the same for the hooks and for the guest.
LEMMA PerformSame ==
    ASSUME SameLinks, NEW sys \in KernelCalls, NEW f, Kept(f),
           NEW raw, NEW said, sys = "symlink" => raw[1] = said[1],
           NEW w, NEW v, \A i \in Changed(sys) : Alike(w[i], v[i])
    PROVE  Perform(sys, f, raw, w, KernelText) = View!Perform(sys, f, said, v, View!HostBehind)
<1>1. CASE sys \in {"rename", "link"}
    <2>1. Alike(w[1], v[1]) /\ Alike(w[2], v[2])
        BY <1>1 DEF Changed
    <2>2. Rename(f, w) = View!Rename(f, v)
        <3>1. CASE At(f, w[1]).kind = "none" \/ w[2] \notin Names
            <4>1. Rename(f, w) = Answer(f, Result("ENOENT"))
                BY <3>1 DEF Rename
            <4>2. View!At(f, v[1]).kind = "none" \/ v[2] \notin Names
                BY <2>1, <3>1, AlikeAt
            <4>3. View!Rename(f, v) = View!Answer(f, View!Result("ENOENT"))
                BY <4>2 DEF View!Rename
            <4>4. QED BY <4>1, <4>3, OneKernel
        <3>2. CASE At(f, w[1]).kind # "none" /\ w[2] \in Names
            <4>1. w[1] = v[1] /\ w[2] = v[2]
                BY <2>1, <3>2, AlikeAt
            <4>2. QED BY <4>1, OneKernel DEF Rename, View!Rename
        <3>3. QED BY <3>1, <3>2
    <2>3. HardLink(f, w) = View!HardLink(f, v)
        <3>1. CASE At(f, w[1]).kind = "none" \/ w[2] \notin Names
            <4>1. HardLink(f, w) = Answer(f, Result("ENOENT"))
                BY <3>1 DEF HardLink
            <4>2. View!At(f, v[1]).kind = "none" \/ v[2] \notin Names
                BY <2>1, <3>1, AlikeAt
            <4>3. View!HardLink(f, v) = View!Answer(f, View!Result("ENOENT"))
                BY <4>2 DEF View!HardLink
            <4>4. QED BY <4>1, <4>3, OneKernel
        <3>2. CASE At(f, w[1]).kind # "none" /\ w[2] \in Names
            <4>1. w[1] = v[1] /\ w[2] = v[2]
                BY <2>1, <3>2, AlikeAt
            <4>2. QED BY <4>1, OneKernel DEF HardLink, View!HardLink
        <3>3. QED BY <3>1, <3>2
    <2>4. QED BY <1>1, <2>2, <2>3 DEF Perform, View!Perform
<1>2. CASE sys = "symlink"
    <2>1. Alike(w[2], v[2]) /\ raw[1] = said[1]
        BY <1>2 DEF Changed
    <2>2. SymLink(f, raw[1], w) = View!SymLink(f, said[1], v)
        <3>1. CASE w[2] = v[2]
            BY <2>1, <3>1, OneKernel DEF SymLink, View!SymLink
        <3>2. CASE w[2] \notin Names /\ v[2] \notin Names
            <4>1. SymLink(f, raw[1], w) = Answer(f, Result("ENOENT"))
                BY <3>2 DEF SymLink, At
            <4>2. View!SymLink(f, said[1], v) = View!Answer(f, View!Result("ENOENT"))
                BY <3>2 DEF View!SymLink, View!At
            <4>3. QED BY <4>1, <4>2, OneKernel
        <3>3. QED BY <2>1, <3>1, <3>2 DEF Alike
    <2>3. QED BY <1>2, <2>2 DEF Perform, View!Perform
<1>3. CASE sys \notin {"rename", "link", "symlink"}
    <2> DEFINE p == Follow(f, w[1], KernelText)
               q == View!Follow(f, v[1], View!HostBehind)
    <2>1. Alike(w[1], v[1])
        BY <1>3 DEF Changed
    <2>2. /\ At(f, p) = View!At(f, q)
          /\ p \in Names <=> q \in Names
          /\ p \in Names => p = q
          /\ At(f, p) = Dir => p = q
        <3>1. Alike(p, q)
            BY <2>1, FollowAlike
        <3> HIDE DEF p, q
        <3>2. QED BY <3>1, AlikeAt
    <2>3. Lookup(f, w, KernelText) = View!Lookup(f, v, View!HostBehind)
        BY <2>2, OneKernel DEF Lookup, View!Lookup
    <2>4. CASE sys \in {"open", "lookup"}
        BY <2>3, <2>4 DEF Perform, View!Perform
    <2>5. CASE sys = "create"
        <3>1. Create(f, w, KernelText) = View!Create(f, v, View!HostBehind)
            BY <2>2, <2>3, OneKernel DEF Create, View!Create
        <3>2. QED BY <2>5, <3>1 DEF Perform, View!Perform
    <2>6. CASE sys \in {"chdir", "opendir"}
        <3>1. OpenDir(f, w, KernelText) = View!OpenDir(f, v, View!HostBehind)
            BY <2>2, OneKernel DEF OpenDir, View!OpenDir
        <3>2. QED BY <2>6, <3>1 DEF Perform, View!Perform
    <2>7. CASE sys \in {"nofollow", "mkdir", "remove", "readlink"}
        <3>1. /\ LookupNoFollow(f, w) = View!LookupNoFollow(f, v)
              /\ Mkdir(f, w) = View!Mkdir(f, v)
              /\ Unlink(f, w) = View!Unlink(f, v)
              /\ ReadLink(f, w) = View!ReadLink(f, v)
            <4>1. CASE w[1] = v[1]
                BY <4>1, OneKernel DEF LookupNoFollow, Mkdir, Unlink, ReadLink,
                   View!LookupNoFollow, View!Mkdir, View!Unlink, View!ReadLink
            <4>2. CASE w[1] \notin Names /\ v[1] \notin Names
                <5>1. At(f, w[1]) = Absent /\ At(f, v[1]) = Absent
                    BY <4>2 DEF At
                <5>2. View!At(f, v[1]) = View!Absent /\ View!Absent.kind = "none"
                    BY <5>1, NodesApart, OneKernel
                <5>3. /\ LookupNoFollow(f, w) = Answer(f, Result("none"))
                      /\ Mkdir(f, w) = Answer(f, Result("ENOENT"))
                      /\ Unlink(f, w) = Answer(f, Result("ENOENT"))
                      /\ ReadLink(f, w) = Answer(f, Result("ENOENT"))
                    BY <4>2, <5>1, NodesApart DEF LookupNoFollow, Mkdir, Unlink, ReadLink
                <5>4. /\ View!LookupNoFollow(f, v) = View!Answer(f, View!Result("none"))
                      /\ View!Mkdir(f, v) = View!Answer(f, View!Result("ENOENT"))
                      /\ View!Unlink(f, v) = View!Answer(f, View!Result("ENOENT"))
                      /\ View!ReadLink(f, v) = View!Answer(f, View!Result("ENOENT"))
                    BY <4>2, <5>2 DEF View!LookupNoFollow, View!Mkdir, View!Unlink,
                       View!ReadLink
                <5>5. QED BY <5>3, <5>4, OneKernel
            <4>3. QED BY <2>1, <4>1, <4>2 DEF Alike
        <3>2. QED BY <2>7, <3>1 DEF Perform, View!Perform
    <2>8. QED BY <1>3, <2>4, <2>5, <2>6, <2>7 DEF KernelCalls
<1>4. QED BY <1>1, <1>2, <1>3

\* The text of the link that readlink has read is one a link may hold.
LEMMA ReadLinkText ==
    ASSUME NEW f, Kept(f), NEW raw, NEW w, NEW ans,
           ans = Perform("readlink", f, raw, w, KernelText), ans.ret.kind = "link"
    PROVE  ans.ret.text \in LinkTexts
<1>1. ans = ReadLink(f, w)
    BY DEF Perform
<1>2. \A r : Answer(f, r).ret = r /\ Result("ENOENT").kind = "ENOENT"
                                  /\ Result("EINVAL").kind = "EINVAL"
    BY DEF Answer, Result
<1>3. ans.ret = At(f, w[1]) /\ At(f, w[1]).kind = "link"
    BY <1>1, <1>2 DEF ReadLink
<1>4. QED BY <1>3, PresentIsNamed, NodesApart DEF Kept

LEMMA ArgumentsThere ==
    ASSUME NEW c \in AllCalls
    PROVE  \A i \in Changed(Sys(c)) : i \in DOMAIN c.args
<1>1. CASE Sys(c) \in Changing \cup Moving
    BY <1>1, NamedArguments
<1>2. CASE Sys(c) \notin Changing \cup Moving
    <2>1. c.args \in Seq(Path) /\ Len(c.args) \in {1, 2}
        BY ModesShape, HooksAssumption
    <2>2. 1 \in DOMAIN c.args
        BY <2>1, LenProperties
    <2>3. Changed(Sys(c)) = {1}
        BY <1>2 DEF Changed, Changing
    <2>4. QED BY <2>2, <2>3
<1>3. QED BY <1>1, <1>2

\* A call that takes effect on the translations of its arguments does what
\* the guest means by them.
LEMMA EffectIsAct ==
    ASSUME NEW G, Housed(G), SameCalls, SamePlaces(G), SameLinks,
           NEW c \in AllCalls, ~Faked(c), c.at = "fd" => dir # <<>>,
           Effect(c, [i \in DOMAIN c.args |-> Intended(c, i)])
    PROVE  View!Act(c)
<1> DEFINE base  == IF c.at = "fd" THEN dir ELSE cwd
           texts == [i \in DOMAIN c.args |-> Intended(c, i)]
           where == [i \in DOMAIN c.args |-> Resolve(base, texts[i])]
           w     == [i \in DOMAIN c.args |-> View!Meant(base, c.args[i])]
           ans   == Perform(Sys(c), fs, texts, where, KernelText)
           meant == View!Perform(c.op, fs, c.args, w, View!HostBehind)
<1>1. Sys(c) \in KernelCalls /\ c.op = Sys(c) /\ Kept(fs) /\ base \in G
    BY HooksAssumption DEF SameCalls, Housed
<1>2. \A i \in Changed(Sys(c)) : i \in DOMAIN c.args
    BY ArgumentsThere
<1>3. \A i \in Changed(Sys(c)) : Alike(where[i], w[i])
    <2>1. ASSUME NEW i \in Changed(Sys(c))
          PROVE  Alike(Resolve(base, Intended(c, i)), View!Meant(base, c.args[i]))
        BY <1>1 DEF SamePlaces
    <2> HIDE DEF base
    <2>2. QED BY <1>2, <2>1
<1>4. Sys(c) = "symlink" => texts[1] = c.args[1]
    BY SymlinkHasText, SymlinkIsRaw DEF Intended
<1>5. ans = meant
    <2> HIDE DEF where, w, texts
    <2>1. QED BY <1>1, <1>3, <1>4, PerformSame
<1>6. Sys(c) = "readlink" /\ ans.ret.kind = "link" =>
            StripRootfs(ans.ret.text) = View!GuestName(ans.ret.text)
    <2> HIDE DEF where, texts
    <2>1. QED BY <1>1, ReadLinkText DEF SameLinks
<1>7. /\ fs'   = ans.fs
      /\ cwd'  = IF Sys(c) = "chdir" /\ ans.ret.kind = "ok" THEN ans.dir ELSE cwd
      /\ dir'  = IF Sys(c) = "opendir" /\ ans.ret.kind = "ok" THEN ans.dir ELSE dir
      /\ last' = [call |-> c,
                  ret  |-> IF Sys(c) = "readlink" /\ ans.ret.kind = "link"
                           THEN Link(StripRootfs(ans.ret.text)) ELSE ans.ret]
    BY DEF Effect
<1>8. /\ fs'   = meant.fs
      /\ cwd'  = IF c.op = "chdir" /\ meant.ret.kind = "ok" THEN meant.dir ELSE cwd
      /\ dir'  = IF c.op = "opendir" /\ meant.ret.kind = "ok" THEN meant.dir ELSE dir
      /\ last' = [call |-> c,
                  ret  |-> IF c.op = "readlink" /\ meant.ret.kind = "link"
                           THEN Link(View!GuestName(meant.ret.text)) ELSE meant.ret]
    <2> HIDE DEF ans, meant
    <2>1. CASE Sys(c) = "readlink" /\ ans.ret.kind = "link"
        BY <1>1, <1>5, <1>6, <1>7, <2>1
    <2>2. CASE ~(Sys(c) = "readlink" /\ ans.ret.kind = "link")
        BY <1>1, <1>5, <1>7, <2>2
    <2>3. QED BY <2>1, <2>2
<1>9. ~(c.op \in {"open", "create"} /\ c.args[1] \in FakeFiles)
    BY DEF SameCalls
<1>10. QED BY <1>8, <1>9, OneKernel DEF View!Act

\* The hooks implement the guest's view, behaviour by behaviour, if they do so
\* path by path: whatever their threads and signal handlers do between the
\* preparation of a path and its use, every call does in one step what its
\* guest meant (lib.rs:122-131, 145-256).
THEOREM HooksImplementView ==
    ASSUME QuietHandlers, NEW G, Closed(G), ArgumentsWithin(G, Moving),
           SameCalls, SamePlaces(G), SameLinks
    PROVE  Spec => RefinesRootView
<1> DEFINE IInv == Housed(G)
<1>1. Init => IInv /\ View!Init
    BY InitHoused, OneKernel DEF Init, View!Init
<1>2. TypeOK /\ (PointerDiscipline /\ PointersIntact) /\ IInv /\ [Next]_vars => IInv'
    BY NextHoused
<1>3. TypeOK /\ (PointerDiscipline /\ PointersIntact) /\ IInv /\ [Next]_vars
        => [View!Next]_(View!view)
    <2> SUFFICES ASSUME TypeOK, PointerDiscipline, PointersIntact, Housed(G), [Next]_vars
                 PROVE  View!Next \/ UNCHANGED View!view
        OBVIOUS
    <2>1. CASE UNCHANGED vars
        BY <2>1 DEF vars, View!view
    <2>2. ASSUME NEW t \in Threads, Step(t)
          PROVE  View!Next \/ UNCHANGED View!view
        <3>1. CASE UNCHANGED <<fs, cwd, dir, last>>
            BY <3>1 DEF View!view
        <3>2. CASE /\ UNCHANGED <<fs, cwd, dir>>
                   /\ \E c \in AllCalls : Faked(c) /\ last' = [call |-> c, ret |-> Result("fake")]
            BY <3>2, OneKernel DEF SameCalls, View!Next, View!OpenFake
        <3>3. CASE Syscall(t)
            <4>1. PICK c \in AllCalls :
                    /\ c = Top(t).call
                    /\ Effect(c, [i \in DOMAIN c.args |-> Intended(c, i)])
                BY <3>3, SyscallActs
            <4>2. ~Faked(c) /\ (c.at = "fd" => dir # <<>>)
                <5>1. depth[t] \in 1..depth[t]
                    BY <3>3, TopTyped DEF Syscall
                <5>2. QED BY <4>1, <5>1 DEF Housed, Begun, Top
            <4>3. View!Act(c)
                BY <4>1, <4>2, EffectIsAct
            <4>4. QED BY <4>3 DEF View!Next
        <3>4. QED BY <2>2, <3>1, <3>2, <3>3, StepShape
    <2>3. QED BY <2>1, <2>2 DEF Next
<1>4. Spec => []TypeOK
    BY TypeCorrect
<1>5. Spec => [](PointerDiscipline /\ PointersIntact)
    BY PointersStayIntact
<1> HIDE DEF IInv
<1>6. QED BY <1>1, <1>2, <1>3, <1>4, <1>5, PTL DEF Spec, RefinesRootView, View!Spec

(***************************************************************************)
(* The guest's view, path by path                                          *)
(***************************************************************************)

LEMMA OneTranslation ==
    /\ \A d, p : View!Under(d, p) <=> Under(d, p)
    /\ \A p, n : View!Drop(p, n) = Drop(p, n)
    /\ \A p : View!FirstBind(p) = FirstBind(p)
    /\ \A p : View!Image(p) = Image(p)
<1>1. \A d, p : View!Under(d, p) <=> Under(d, p)
    BY DEF View!Under, Under, View!IsPrefix, IsPrefix
<1>2. \A p, n : View!Drop(p, n) = Drop(p, n)
    BY DEF View!Drop, Drop
<1>3. ASSUME NEW p PROVE View!FirstBind(p) = FirstBind(p)
    <2> DEFINE S == {i \in 1..Len(Binds) :
                       /\ View!Under(Binds[i].dst, p)
                       /\ \A j \in 1..(i - 1) : ~View!Under(Binds[j].dst, p)}
               T == {i \in 1..Len(Binds) :
                       /\ Under(Binds[i].dst, p)
                       /\ \A j \in 1..(i - 1) : ~Under(Binds[j].dst, p)}
    <2>1. S = T
        BY <1>1, Zenon
    <2>2. View!FirstBind(p) = IF S = {} THEN 0 ELSE CHOOSE i \in S : TRUE
        BY DEF View!FirstBind
    <2>3. FirstBind(p) = IF T = {} THEN 0 ELSE CHOOSE i \in T : TRUE
        BY DEF FirstBind
    <2> HIDE DEF S, T
    <2>4. QED BY <2>1, <2>2, <2>3
<1>4. ASSUME NEW p PROVE View!Image(p) = Image(p)
    BY <1>2, <1>3 DEF View!Image, Image
<1>5. QED BY <1>1, <1>2, <1>3, <1>4

\* Where the guest's root itself is meant, no bind and no directory of the
\* host's.
OwnRoot(g) == FirstBind(g) = 0 /\ ~\E d \in HostDirs : Under(d, g)

\* The host path behind a guest path, in the three places it may be in.
LEMMA HostOfPlaces ==
    ASSUME NEW g \in Path
    PROVE  /\ OwnRoot(g) => View!HostOf(g) = Clean(Rootfs \o g)
           /\ FirstBind(g) = 0 /\ (\E d \in HostDirs : Under(d, g)) => View!HostOf(g) = g
           /\ FirstBind(g) # 0 => View!HostOf(g) = Clean(Image(g))
           /\ ~(\E d \in HostDirs : Under(d, g)) => View!HostOf(g) = Clean(Image(g))
BY OneTranslation, OnePathWalk DEF OwnRoot, View!HostOf, Image

LEMMA GuestNames ==
    ASSUME NEW p \in Path
    PROVE  /\ ~Under(Rootfs, p) => View!GuestName(p) = p
           /\ Rootfs = <<>> => View!GuestName(p) = p
           /\ Rootfs # <<>> /\ p = Rootfs => View!GuestName(p) = <<Slash>>
           /\ Rootfs # <<>> /\ p # Rootfs /\ Under(Rootfs, p)
                => View!GuestName(p) = Drop(p, Len(Rootfs))
<1>1. Rootfs # <<>> /\ p = Rootfs => Under(Rootfs, p)
    BY PrefixOfItself, PathAssumption, LenProperties DEF Under, Path
<1>2. QED BY <1>1, OneTranslation DEF View!GuestName

LEMMA CleanSlash ==
    ASSUME NEW p \in Path, p # <<>>
    PROVE  Clean(p \o <<Slash>>) = p
<1>1. <<Slash>> \in Path /\ Len(<<Slash>>) = 1 /\ <<Slash>>[1] = Slash
    BY PathAssumption DEF Path
<1>2. PICK s \in Path : s = <<Slash>>
    BY <1>1
<1>3. Len(p) \in Nat /\ Len(p) > 0
    BY LenProperties, EmptySeq DEF Path
<1>4. /\ p \o s \in Path /\ Len(p \o s) = Len(p) + 1 /\ (p \o s)[Len(p) + 1] = Slash
      /\ \A i \in 1..Len(p) : (p \o s)[i] = p[i]
    BY <1>1, <1>2, <1>3, ConcatProperties DEF Path
<1>5. Last(p \o s) = Slash
    BY <1>4 DEF Last
<1>6. Clean(p \o s) = SubSeq(p \o s, 1, Len(p))
    BY <1>3, <1>4, <1>5 DEF Clean, Front
<1>7. \A i \in 1..Len(p) : (p \o s)[i] \in Fragment
    BY <1>3, <1>4, ElementOfSeq DEF Path
<1>8. /\ Clean(p \o s) \in Path /\ Len(Clean(p \o s)) = Len(p)
      /\ \A i \in 1..Len(p) : Clean(p \o s)[i] = p[i]
    <2>1. 1 \in Int /\ Len(p) \in Int /\ 1 <= Len(p) + 1
        BY <1>3
    <2>2. QED BY <1>3, <1>4, <1>6, <1>7, <2>1, SubSeqProperties DEF Path
<1>9. QED BY <1>2, <1>8, SeqEqual DEF Path

\* An absolute path without a slash at its end that lies, component by
\* component, where its first bytes say: in the rootfs in host form, in a
\* directory of the host's, or where translate rewrites it and it fits.
Expected(a) ==
    /\ IsAbsolute(a) /\ Clean(a) = a
    /\ \/ Under(Rootfs, a) /\ OwnRoot(View!GuestName(a))
       \/ ~Under(Rootfs, a) /\ FirstBind(a) = 0 /\ \E d \in HostDirs : Under(d, a)
       \/ ~PassesThrough(a) /\ Len(Image(a)) < BufLen

LEMMA EmptyRootfs == \A p \in Path : Rootfs = <<>> => Rootfs \o p = p
BY PathAssumption, EmptySeq, ConcatEmptySeq DEF Path

\* translate sends an absolute path where the guest means it (lib.rs:145-
\* 223), unless byte prefixes and components differ on it, a bind lies in a
\* directory of the host's, or it is too long.
THEOREM AbsolutePathsAreMeant ==
    ASSUME Rootfs = <<>> \/ IsAbsolute(Rootfs),
           \A i \in 1..Len(Binds) : IsAbsolute(Binds[i].src),
           NEW a \in Path, Expected(a), NEW d
    PROVE  Resolve(d, Translate(a).path) = View!Meant(d, a)
<1> DEFINE g == View!GuestName(a)
<1>1. IsAbsolute(a) /\ a # <<>> /\ Clean(a) = a
    BY DEF Expected, IsAbsolute
<1>2. View!Meant(d, a) = View!HostOf(g)
    BY <1>1, OnePathWalk DEF View!Meant, View!HostBehind
<1>3. Resolve(d, a) = a
    BY <1>1 DEF Resolve
<1>4. CASE Under(Rootfs, a) /\ OwnRoot(g)
    <2>1. Translate(a).path = a
        BY <1>4 DEF Translate, PassesThrough, Under
    <2>2. g \in Path /\ Clean(Rootfs \o g) = a
        <3>1. CASE Rootfs = <<>>
            BY <1>1, <3>1, GuestNames, EmptyRootfs
        <3>2. CASE Rootfs # <<>> /\ a = Rootfs
            <4>1. g = <<Slash>> /\ <<Slash>> \in Path
                BY <3>2, PathAssumption, GuestNames DEF Path
            <4>2. Clean(Rootfs \o <<Slash>>) = Rootfs
                BY <3>2, PathAssumption, CleanSlash
            <4>3. QED BY <3>2, <4>1, <4>2
        <3>3. CASE Rootfs # <<>> /\ a # Rootfs
            <4>1. g = Drop(a, Len(Rootfs))
                BY <1>4, <3>3, GuestNames
            <4>2. g \in Path /\ a = Rootfs \o g
                BY <1>4, <4>1, PathAssumption, PrefixAndRest DEF Under
            <4>3. QED BY <1>1, <4>2
        <3>4. QED BY <3>1, <3>2, <3>3
    <2> HIDE DEF g
    <2>3. QED BY <1>2, <1>3, <1>4, <2>1, <2>2, HostOfPlaces
<1>5. CASE ~Under(Rootfs, a) /\ FirstBind(a) = 0 /\ \E h \in HostDirs : Under(h, a)
    <2>1. Translate(a).path = a
        BY <1>5 DEF Translate, PassesThrough, Under
    <2>2. g = a
        BY <1>5, GuestNames
    <2>3. View!HostOf(a) = a
        BY <1>5, HostOfPlaces
    <2>4. QED BY <1>2, <1>3, <2>1, <2>2, <2>3
<1>6. CASE ~PassesThrough(a) /\ Len(Image(a)) < BufLen
    <2>1. Translate(a).path = Image(a)
        BY <1>1, <1>6 DEF Translate
    <2>2. ~Under(Rootfs, a) /\ ~\E h \in HostDirs : Under(h, a)
        BY <1>6 DEF PassesThrough, Under
    <2>3. View!Meant(d, a) = Clean(Image(a))
        BY <1>2, <2>2, GuestNames, HostOfPlaces
    <2>4. IsAbsolute(Image(a))
        <3>1. CASE FirstBind(a) = 0
            BY <1>6, <3>1, RootfsNotEmpty, PathAssumption, AbsoluteAppend DEF Image
        <3>2. CASE FirstBind(a) # 0
            <4> DEFINE b == Binds[FirstBind(a)]
            <4>1. /\ FirstBind(a) \in 1..Len(Binds) /\ b.src \in Path /\ b.dst \in Path
                  /\ IsPrefix(b.dst, a)
                BY <3>2, FirstBindMatches, MountsTyped DEF Under
            <4>2. Drop(a, Len(b.dst)) \in Path
                BY <4>1, PrefixAndRest
            <4>3. IsAbsolute(b.src \o Drop(a, Len(b.dst)))
                BY <4>1, <4>2, AbsoluteAppend
            <4>4. QED BY <3>2, <4>3 DEF Image
        <3>3. QED BY <3>1, <3>2
    <2>5. Image(a) # <<>>
        BY <2>4 DEF IsAbsolute
    <2>6. QED BY <2>1, <2>3, <2>4, <2>5 DEF Resolve
<1>7. QED BY <1>4, <1>5, <1>6 DEF Expected

\* What Join puts between a directory and a name.
Between(d) == IF Last(d) = Slash THEN <<>> ELSE <<Slash>>

LEMMA JoinTyped ==
    ASSUME NEW d \in Path, IsAbsolute(d), NEW p \in Path, p # <<>>, Tidy(p)
    PROVE  /\ Between(d) \in Path /\ Between(d) \o p \in Path
           /\ Join(d, p) = d \o (Between(d) \o p)
           /\ Join(d, p) \in Path /\ IsAbsolute(Join(d, p))
           /\ Clean(Join(d, p)) = Join(d, p)
<1>1. <<Slash>> \in Path /\ <<>> \in Path
    BY PathAssumption, EmptySeq DEF Path
<1>2. Between(d) \in Path
    BY <1>1 DEF Between
<1>3. Between(d) \o p \in Path
    BY <1>2, PathConcat
<1>4. Join(d, p) = d \o (Between(d) \o p)
    <2>1. CASE Last(d) = Slash
        <3>1. <<>> \o p = p
            BY ConcatEmptySeq DEF Path
        <3>2. QED BY <2>1, <3>1 DEF Join, Between, IsAbsolute
    <2>2. CASE Last(d) # Slash
        <3>1. PICK s \in Path : s = <<Slash>>
            BY <1>1
        <3>2. (d \o s) \o p = d \o (s \o p)
            BY Associates DEF Associate
        <3>3. QED BY <2>2, <3>1, <3>2 DEF Join, Between
    <2>3. QED BY <2>1, <2>2
<1>5. Join(d, p) \in Path /\ IsAbsolute(Join(d, p))
    BY <1>3, <1>4, AbsoluteAppend
<1>6. Last(Join(d, p)) # Slash
    <2>0. PICK b \in Path : b = Between(d)
        BY <1>2
    <2>1. PICK h \in Path : h = d \o b
        BY PathConcat
    <2>2. Join(d, p) = h \o p
        <3>1. (d \o b) \o p = d \o (b \o p)
            BY Associates DEF Associate
        <3>2. QED BY <1>4, <2>0, <2>1, <3>1
    <2>3. Len(h) \in Nat /\ Len(p) \in Nat /\ Len(p) > 0
        BY LenProperties, EmptySeq DEF Path
    <2>4. Len(h \o p) = Len(h) + Len(p) /\ (h \o p)[Len(h) + Len(p)] = p[Len(p)]
        BY <2>3, ConcatProperties DEF Path
    <2>5. QED BY <2>2, <2>4 DEF Last, Tidy
<1>7. Clean(Join(d, p)) = Join(d, p)
    BY <1>6 DEF Clean
<1>8. QED BY <1>2, <1>3, <1>4, <1>5, <1>7

\* The last fragment of a path with something at its end.
LEMMA LastOfConcat ==
    ASSUME NEW s \in Path, NEW t \in Path, t # <<>>
    PROVE  Last(s \o t) = Last(t)
<1>1. Len(s) \in Nat /\ Len(t) \in Nat /\ Len(t) > 0
    BY LenProperties, EmptySeq DEF Path
<1>2. Len(s \o t) = Len(s) + Len(t) /\ (s \o t)[Len(s) + Len(t)] = t[Len(t)]
    BY <1>1, ConcatProperties DEF Path
<1>3. QED BY <1>2 DEF Last

\* A name in a directory that lies below another one.
LEMMA JoinBelow ==
    ASSUME NEW s \in Path, NEW t \in Path, IsAbsolute(t), s = <<>> \/ IsAbsolute(s),
           NEW p \in Path, p # <<>>, Tidy(p)
    PROVE  Join(s \o t, p) = s \o Join(t, p)
<1>1. s \o t \in Path /\ IsAbsolute(s \o t) /\ t # <<>>
    BY AbsoluteAppend, ConcatEmptySeq DEF IsAbsolute, Path
<1>2. Between(s \o t) = Between(t)
    BY <1>1, LastOfConcat DEF Between
<1>3. PICK r \in Path : r = Between(t) \o p
    <2>1. Between(t) \o p \in Path
        BY JoinTyped
    <2>2. QED BY <2>1
<1>4. Join(s \o t, p) = (s \o t) \o r
    <2>1. PICK u \in Path : u = s \o t
        BY <1>1
    <2>2. Join(u, p) = u \o (Between(u) \o p)
        BY <1>1, <2>1, JoinTyped
    <2>3. QED BY <1>2, <1>3, <2>1, <2>2
<1>5. Join(t, p) = t \o r
    <2>1. Join(t, p) = t \o (Between(t) \o p)
        BY JoinTyped
    <2>2. QED BY <1>3, <2>1
<1>6. (s \o t) \o r = s \o (t \o r)
    BY Associates DEF Associate
<1>7. QED BY <1>4, <1>5, <1>6

\* Below its prefix a path goes on with a slash.
LEMMA RestIsAbsolute ==
    ASSUME NEW d \in Path, NEW p \in Path, Under(d, p)
    PROVE  /\ Drop(p, Len(d)) \in Path /\ p = d \o Drop(p, Len(d))
           /\ \/ p = d /\ Drop(p, Len(d)) = <<>>
              \/ p # d /\ IsAbsolute(Drop(p, Len(d)))
<1>1. /\ Len(d) \in Nat /\ Len(p) \in Nat /\ Len(d) <= Len(p)
      /\ Drop(p, Len(d)) \in Path /\ p = d \o Drop(p, Len(d))
    BY PrefixAndRest, LenProperties DEF Under, Path
<1>2. Len(Drop(p, Len(d))) = Len(p) - Len(d)
    BY <1>1, DropTyped
<1>3. CASE Len(p) = Len(d)
    <2>1. Drop(p, Len(d)) = <<>>
        BY <1>1, <1>2, <1>3, EmptySeq DEF Path
    <2>2. QED BY <1>1, <2>1, ConcatEmptySeq DEF Path
<1>4. CASE Len(p) > Len(d)
    <2>1. Drop(p, Len(d))[1] = Slash
        BY <1>1, <1>4, DropFirst DEF Under
    <2>2. Drop(p, Len(d)) # <<>>
        BY <1>1, <1>2, <1>4, EmptySeq
    <2>3. QED BY <1>1, <1>4, <2>1, <2>2 DEF IsAbsolute
<1>5. QED BY <1>1, <1>3, <1>4

\* A name in a directory that the guest reaches as the place it lies in: the
\* rootfs, a directory of the host's or a bind's source, and in which nothing
\* else begins for the guest by that name.
Beside(d, p) ==
    LET h == View!GuestOf(d)
        bound == \E i \in 1..Len(Binds) : Under(Binds[i].src, d)
    IN  /\ IsAbsolute(d)
        /\ p # <<>> /\ ~IsAbsolute(p) /\ Tidy(p)
        /\ \/ Under(Rootfs, d) /\ ~bound /\ OwnRoot(Join(h, p))
           \/ /\ ~Under(Rootfs, d) /\ ~bound
              /\ \E e \in HostDirs : Under(e, d)
              /\ FirstBind(Join(h, p)) = 0
           \/ \E i \in 1..Len(Binds) :
                 /\ Under(Binds[i].src, d)
                 /\ h = Binds[i].dst \o Drop(d, Len(Binds[i].src))
                 /\ FirstBind(Join(h, p)) = i

\* The guest's and the host's name of something in a bound directory.
LEMMA InBind ==
    ASSUME NEW src \in Path, IsAbsolute(src), Tidy(src),
           NEW dst \in Path, IsAbsolute(dst), Tidy(dst),
           NEW d \in Path, Under(src, d), NEW p \in Path, p # <<>>, Tidy(p)
    PROVE  LET h == dst \o Drop(d, Len(src))
           IN  /\ h \in Path /\ IsAbsolute(h)
               /\ src \o Drop(Join(h, p), Len(dst)) = Join(d, p)
<1> DEFINE rest == Drop(d, Len(src))
           h == dst \o rest
<1>1. rest \in Path /\ d = src \o rest /\ (rest = <<>> \/ IsAbsolute(rest))
    BY RestIsAbsolute
<1>2. h \in Path /\ IsAbsolute(h)
    BY <1>1, AbsoluteAppend
<1>3. CASE rest = <<>>
    <2>1. h = dst /\ d = src
        BY <1>1, <1>3, ConcatEmptySeq DEF Path
    <2>2. Between(src) = <<Slash>> /\ Between(dst) = <<Slash>>
        BY DEF Between, Tidy, Last, IsAbsolute
    <2>3. /\ <<Slash>> \o p \in Path
          /\ Join(src, p) = src \o (<<Slash>> \o p)
          /\ Join(dst, p) = dst \o (<<Slash>> \o p)
        <3>1. Between(src) \o p \in Path /\ Join(src, p) = src \o (Between(src) \o p)
            BY JoinTyped
        <3>2. Join(dst, p) = dst \o (Between(dst) \o p)
            BY JoinTyped
        <3>3. QED BY <2>2, <3>1, <3>2
    <2>4. Drop(Join(dst, p), Len(dst)) = <<Slash>> \o p
        BY <2>3, DropOfConcat
    <2> HIDE DEF rest, h
    <2>5. src \o Drop(Join(h, p), Len(dst)) = Join(d, p)
        BY <2>1, <2>3, <2>4
    <2>6. QED BY <1>2, <2>5 DEF rest, h
<1>4. CASE IsAbsolute(rest)
    <2>1. PICK r \in Path : r = rest /\ IsAbsolute(r)
        BY <1>1, <1>4
    <2>2. Join(r, p) \in Path
        BY <2>1, JoinTyped
    <2>3. Join(dst \o r, p) = dst \o Join(r, p)
        BY <2>1, JoinBelow, ZenonT(60)
    <2>4. Join(src \o r, p) = src \o Join(r, p)
        BY <2>1, JoinBelow, ZenonT(60)
    <2>5. Drop(dst \o Join(r, p), Len(dst)) = Join(r, p)
        BY <2>2, DropOfConcat
    <2>6. h = dst \o r /\ d = src \o r
        BY <1>1, <2>1
    <2> HIDE DEF rest, h
    <2>7. src \o Drop(Join(h, p), Len(dst)) = Join(d, p)
        BY <2>3, <2>4, <2>5, <2>6
    <2>8. QED BY <1>2, <2>7 DEF rest, h
<1>5. QED BY <1>1, <1>3, <1>4

\* Relative paths are not translated (lib.rs:150-152): they are meant where
\* the kernel finds them, since every directory the guest is in is named by
\* its host path.
THEOREM RelativePathsAreMeant ==
    ASSUME TidyMounts, Rootfs = <<>> \/ IsAbsolute(Rootfs),
           \A i \in 1..Len(Binds) : /\ IsAbsolute(Binds[i].src)
                                    /\ IsAbsolute(Binds[i].dst) /\ Tidy(Binds[i].dst),
           NEW d \in Path, NEW p \in Path, Beside(d, p)
    PROVE  Resolve(d, Translate(p).path) = View!Meant(d, p)
<1> DEFINE h == View!GuestOf(d)
           g == Join(h, p)
           bound == \E i \in 1..Len(Binds) : Under(Binds[i].src, d)
<1>1. IsAbsolute(d) /\ p # <<>> /\ ~IsAbsolute(p) /\ Tidy(p)
    BY DEF Beside
<1>2. Resolve(d, Translate(p).path) = Join(d, p)
    <2>1. Translate(p).path = p
        BY <1>1 DEF Translate
    <2>2. QED BY <1>1, <2>1, JoinTyped DEF Resolve
<1>3. ASSUME h \in Path, IsAbsolute(h)
      PROVE  View!Meant(d, p) = View!HostOf(g) /\ g \in Path /\ Clean(g) = g
    <2>1. g \in Path /\ Clean(g) = g
        BY <1>1, <1>3, JoinTyped
    <2>2. Resolve(h, p) = g
        BY <1>1, <2>1 DEF Resolve
    <2>3. View!Meant(d, p) = View!HostOf(Resolve(h, p))
        BY <1>1, OnePathWalk DEF View!Meant
    <2>4. QED BY <2>1, <2>2, <2>3
<1>4. ~bound => h = View!GuestName(d)
    BY OneTranslation DEF View!GuestOf
<1>5. CASE Under(Rootfs, d) /\ ~bound /\ OwnRoot(g)
    <2>1. h \in Path /\ IsAbsolute(h) /\ Rootfs \o g = Join(d, p)
        <3>1. CASE Rootfs = <<>>
            <4>1. h = d
                BY <1>4, <1>5, <3>1, GuestNames
            <4>2. Join(d, p) \in Path
                BY <1>1, JoinTyped
            <4>3. QED BY <1>1, <3>1, <4>1, <4>2, EmptyRootfs
        <3>2. CASE Rootfs # <<>> /\ d = Rootfs
            <4>1. h = <<Slash>> /\ <<Slash>> \in Path
                BY <1>4, <1>5, <3>2, GuestNames, PathAssumption DEF Path
            <4>2. IsAbsolute(<<Slash>>) /\ Last(<<Slash>>) = Slash
                BY DEF IsAbsolute, Last
            <4>3. g = <<Slash>> \o p
                BY <4>1, <4>2 DEF Join
            <4>4. Between(d) = <<Slash>>
                BY <3>2 DEF TidyMounts, Tidy, Between, Last
            <4>5. Join(d, p) = d \o (<<Slash>> \o p)
                BY <1>1, <4>4, JoinTyped
            <4>6. QED BY <3>2, <4>1, <4>2, <4>3, <4>5
        <3>3. CASE Rootfs # <<>> /\ d # Rootfs
            <4>1. h = Drop(d, Len(Rootfs))
                BY <1>4, <1>5, <3>3, GuestNames
            <4>2. h \in Path /\ d = Rootfs \o h /\ IsAbsolute(h)
                BY <1>5, <3>3, <4>1, PathAssumption, RestIsAbsolute
            <4> HIDE DEF h
            <4>3. Join(Rootfs \o h, p) = Rootfs \o Join(h, p)
                BY <1>1, <4>2, PathAssumption, JoinBelow
            <4>4. QED BY <4>2, <4>3
        <3>4. QED BY <3>1, <3>2, <3>3
    <2>2. View!HostOf(g) = Clean(Rootfs \o g)
        BY <1>3, <1>5, <2>1, HostOfPlaces
    <2>3. Clean(Join(d, p)) = Join(d, p)
        BY <1>1, JoinTyped
    <2>4. QED BY <1>2, <1>3, <2>1, <2>2, <2>3
<1>6. CASE ~Under(Rootfs, d) /\ ~bound /\ (\E e \in HostDirs : Under(e, d)) /\ FirstBind(g) = 0
    <2>1. h = d
        BY <1>4, <1>6, GuestNames
    <2>2. PICK e \in HostDirs : Under(e, d)
        BY <1>6
    <2>3. e \in Path /\ Tidy(e)
        BY PathAssumption DEF TidyMounts
    <2>4. Under(e, g)
        <3>1. Resolve(d, p) = g
            BY <1>1, <2>1, JoinTyped DEF Resolve
        <3>2. QED BY <1>1, <2>2, <2>3, <3>1, UnderResolve
    <2>5. g \in Path /\ View!Meant(d, p) = View!HostOf(g)
        BY <1>1, <1>3, <2>1
    <2>6. View!HostOf(g) = g
        BY <1>6, <2>4, <2>5, HostOfPlaces
    <2>7. QED BY <1>2, <2>1, <2>5, <2>6
<1>7. ASSUME NEW i \in 1..Len(Binds), Under(Binds[i].src, d),
             h = Binds[i].dst \o Drop(d, Len(Binds[i].src)), FirstBind(g) = i
      PROVE  Resolve(d, Translate(p).path) = View!Meant(d, p)
    <2>1. Binds[i].src \in Path /\ Binds[i].dst \in Path
        BY MountsTyped
    <2>2. /\ h \in Path /\ IsAbsolute(h)
          /\ Binds[i].src \o Drop(g, Len(Binds[i].dst)) = Join(d, p)
        <3>1. Tidy(Binds[i].src)
            BY DEF TidyMounts
        <3>2. PICK src \in Path : src = Binds[i].src
            BY <2>1
        <3>3. PICK dst \in Path : dst = Binds[i].dst
            BY <2>1
        <3>4. /\ IsAbsolute(src) /\ Tidy(src) /\ Under(src, d)
              /\ IsAbsolute(dst) /\ Tidy(dst)
            BY <1>7, <3>1, <3>2, <3>3
        <3> DEFINE k == dst \o Drop(d, Len(src))
        <3>5. k \in Path /\ IsAbsolute(k) /\ src \o Drop(Join(k, p), Len(dst)) = Join(d, p)
            BY <1>1, <3>4, InBind
        <3> HIDE DEF k, h
        <3>6. h = k
            BY <1>7, <3>2, <3>3 DEF k
        <3>7. QED BY <3>2, <3>3, <3>5, <3>6
    <2>3. Len(Binds) \in Nat
        BY PathAssumption, LenProperties
    <2>4. FirstBind(g) # 0 /\ Image(g) = Join(d, p)
        <3> HIDE DEF g
        <3>1. i # 0
            BY <2>3
        <3>2. QED BY <1>7, <2>2, <3>1 DEF Image
    <2>5. View!HostOf(g) = Clean(Join(d, p))
        BY <1>3, <2>2, <2>4, HostOfPlaces
    <2>6. Clean(Join(d, p)) = Join(d, p)
        BY <1>1, JoinTyped
    <2>7. QED BY <1>2, <1>3, <2>2, <2>5, <2>6
<1>8. QED BY <1>5, <1>6, <1>7 DEF Beside

\* A path of a call that names, in a directory, what its fragments say.
Plain(d, c, i) ==
    \/ c.args[i] = <<>>
    \/ Expected(c.args[i]) /\ Modes(c)[i] # "raw"
    \/ Beside(d, c.args[i])
    \/ /\ Resolve(d, Intended(c, i)) \notin Names
       /\ View!Meant(d, c.args[i]) \notin Names

LEMMA PlainPathsAreMeant ==
    ASSUME TidyMounts, Rootfs = <<>> \/ IsAbsolute(Rootfs),
           \A i \in 1..Len(Binds) : /\ IsAbsolute(Binds[i].src)
                                    /\ IsAbsolute(Binds[i].dst) /\ Tidy(Binds[i].dst),
           NEW G \in SUBSET Path,
           \A c \in AllCalls : \A i \in Changed(Sys(c)) : \A d \in G : Plain(d, c, i)
    PROVE  SamePlaces(G)
<1> SUFFICES ASSUME NEW c \in AllCalls, NEW i \in Changed(Sys(c)), NEW d \in G
             PROVE  Alike(Resolve(d, Intended(c, i)), View!Meant(d, c.args[i]))
    BY DEF SamePlaces
<1> DEFINE p == c.args[i]
<1>1. d \in Path /\ p \in Path
    <2>1. c.args \in Seq(Path) /\ i \in DOMAIN c.args
        BY ArgumentsThere, HooksAssumption
    <2>2. QED BY <2>1, ElementOfSeq
<1>2. CASE p = <<>>
    <2>1. Intended(c, i) = <<>>
        BY <1>2 DEF Intended, Translate, IsAbsolute
    <2>2. View!Meant(d, <<>>) = <<>> /\ Resolve(d, <<>>) = <<>>
        BY DEF Resolve, View!Meant, View!IsAbsolute
    <2>3. QED BY <1>2, <2>1, <2>2 DEF Alike
<1>3. CASE Expected(p) /\ Modes(c)[i] # "raw"
    <2>1. Intended(c, i) = Translate(p).path
        BY <1>3 DEF Intended
    <2>2. Resolve(d, Translate(p).path) = View!Meant(d, p)
        BY <1>1, <1>3, AbsolutePathsAreMeant
    <2>3. QED BY <2>1, <2>2 DEF Alike
<1>4. CASE Beside(d, p)
    <2>1. Intended(c, i) = Translate(p).path
        BY <1>4 DEF Intended, Beside, Translate
    <2>2. Resolve(d, Translate(p).path) = View!Meant(d, p)
        BY <1>1, <1>4, RelativePathsAreMeant
    <2>3. QED BY <2>1, <2>2 DEF Alike
<1>5. CASE Resolve(d, Intended(c, i)) \notin Names /\ View!Meant(d, p) \notin Names
    BY <1>5 DEF Alike
<1>6. QED BY <1>2, <1>3, <1>4, <1>5 DEF Plain

\* The hooks do what the guest means, in one step each and with any threads
\* and handlers at once, for calls whose paths are plain wherever the guest can
\* be: the hypotheses name what the code does not see to (lib.rs:145-256).
THEOREM PlainCallsImplementView ==
    ASSUME QuietHandlers, TidyMounts, Rootfs = <<>> \/ IsAbsolute(Rootfs),
           \A i \in 1..Len(Binds) : /\ IsAbsolute(Binds[i].src)
                                    /\ IsAbsolute(Binds[i].dst) /\ Tidy(Binds[i].dst),
           NEW G \in SUBSET Path, Closed(G), ArgumentsWithin(G, Moving),
           \A c \in AllCalls : \A i \in Changed(Sys(c)) : \A d \in G : Plain(d, c, i),
           SameCalls, SameLinks
    PROVE  Spec => RefinesRootView
<1>1. SamePlaces(G)
    BY PlainPathsAreMeant
<1>2. QED BY <1>1, HooksImplementView
=============================================================================
