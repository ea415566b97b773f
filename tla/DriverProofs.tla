---------------------------- MODULE DriverProofs ----------------------------
(***************************************************************************)
(* The compilation driver, for command lines of every length and every     *)
(* outcome of every child process: failures are reported and contained,    *)
(* success means that the work has been done, the linker gets the right    *)
(* objects in the right order, and no temporary file is left.              *)
(***************************************************************************)
EXTENDS Driver, SequenceTheorems, WellFoundedInduction, TLAPS

\* A set of natural numbers that is not empty has a least element.
LEMMA LeastOf ==
  ASSUME NEW S \in SUBSET Nat, S # {}
  PROVE  Min(S) \in S /\ \A m \in S : Min(S) <= m
<1>. DEFINE R == {p \in Nat \X Nat : p[1] < p[2]}
<1>1. IsWellFoundedOn(R, Nat)
  BY NatLessThanWellFounded, Zenon DEF OpToRel
<1>2. PICK x \in S : \A y \in S : <<y, x>> \notin R
  BY <1>1, WFMin, Zenon
<1>3. \A y \in S : ~(y < x)
  BY <1>2, Zenon
<1>. HIDE DEF R
<1>4. \A y \in S : x <= y
  BY <1>3
<1>. QED  BY <1>4 DEF Min

\* What Append() does to a sequence.
LEMMA Appended ==
  ASSUME NEW S, NEW s \in Seq(S), NEW e \in S, NEW t, t = Append(s, e)
  PROVE  /\ t \in Seq(S) /\ Len(s) \in Nat /\ Len(t) = Len(s) + 1 /\ DOMAIN t = 1 .. Len(s) + 1
         /\ t[Len(s) + 1] = e /\ \A k \in DOMAIN s : t[k] = s[k]
  OBVIOUS

\* Three sequences in a row.
LEMMA Around ==
  ASSUME NEW S, NEW a \in Seq(S), NEW b \in Seq(S), NEW c \in Seq(S), NEW t, t = a \o b \o c
  PROVE  /\ t \in Seq(S) /\ Len(t) = Len(a) + Len(b) + Len(c)
         /\ DOMAIN t = 1 .. Len(a) + Len(b) + Len(c)
         /\ \A k \in 1 .. Len(a) : t[k] = a[k]
         /\ \A k \in 1 .. Len(b) : t[Len(a) + k] = b[k]
         /\ \A k \in 1 .. Len(c) : t[Len(a) + Len(b) + k] = c[k]
<1>1. Len(a) \in Nat /\ Len(b) \in Nat /\ Len(c) \in Nat
  OBVIOUS
<1>2. /\ a \o b \in Seq(S) /\ Len(a \o b) = Len(a) + Len(b)
      /\ \A k \in 1 .. Len(a) + Len(b) : (a \o b)[k] = IF k <= Len(a) THEN a[k] ELSE b[k - Len(a)]
  BY ConcatProperties
<1>3. /\ t \in Seq(S) /\ Len(t) = Len(a \o b) + Len(c)
      /\ \A k \in 1 .. Len(a \o b) + Len(c) :
           t[k] = IF k <= Len(a \o b) THEN (a \o b)[k] ELSE c[k - Len(a \o b)]
  BY <1>2, ConcatProperties
<1>4. DOMAIN t = 1 .. Len(a) + Len(b) + Len(c) /\ Len(t) = Len(a) + Len(b) + Len(c)
  BY <1>1, <1>2, <1>3
<1>5. \A k \in 1 .. Len(a) + Len(b) : t[k] = (a \o b)[k]
  BY <1>1, <1>2, <1>3
<1>6. \A k \in 1 .. Len(a) : t[k] = a[k]
  BY <1>1, <1>2, <1>5
<1>7. ASSUME NEW k \in 1 .. Len(b) PROVE t[Len(a) + k] = b[k]
  <2>1. Len(a) + k \in 1 .. Len(a) + Len(b) /\ ~(Len(a) + k <= Len(a)) /\ (Len(a) + k) - Len(a) = k
    BY <1>1
  <2>. QED  BY <1>2, <1>5, <2>1
<1>8. ASSUME NEW k \in 1 .. Len(c) PROVE t[Len(a) + Len(b) + k] = c[k]
  <2>. DEFINE m == Len(a) + Len(b) + k
  <2>1. m \in 1 .. Len(a \o b) + Len(c) /\ ~(m <= Len(a \o b)) /\ m - Len(a \o b) = k
    BY <1>1, <1>2
  <2>. HIDE DEF m
  <2>2. t[m] = c[k]
    BY <1>3, <2>1
  <2>. QED  BY <2>2 DEF m
<1>. QED  BY <1>3, <1>4, <1>6, <1>7, <1>8

\* The options and the command line do not change after the checks, and with them
\* what main() is going to do.
LEMMA SameMode ==
  ASSUME UNCHANGED <<options, counts>>
  PROVE  /\ Mode' = Mode /\ Translates' = Translates /\ OneOutput' = OneOutput
         /\ TooManyFiles' = TooManyFiles
  BY DEF options, counts, Mode, Translates, OneOutput, TooManyFiles, Single

\* What the linker has been given is not changed by later steps.
LEMMA LinkedKept ==
  ASSUME LinkedRight, UNCHANGED <<argv, linked>>
  PROVE  LinkedRight'
  BY DEF LinkedRight

\* The list keeps its order while only kinds and objects of its files change.
LEMMA OrderKept ==
  ASSUME Ordered, DOMAIN infiles' = DOMAIN infiles,
         \A k \in DOMAIN infiles : /\ infiles'[k].src = infiles[k].src
                                   /\ infiles'[k].lib = infiles[k].lib
  PROVE  Ordered'
  BY DEF Ordered

\* The names of the library's files, as select_target lists them.
LEMMA LibraryNames ==
  /\ Before \in Seq(Names) /\ After \in Seq(Names)
  /\ \A k \in DOMAIN Before : Before[k] \notin Closing
  /\ \A k \in DOMAIN After : After[k] \notin StartUp
<1>. DEFINE Fits(s, bad) == s \in Seq(Names) /\ \A k \in DOMAIN s : s[k] \notin bad
<1>1. libc \in {"glibc", "musl", "lux"}
  BY DEF libc
<1>2. Fits(After, StartUp)
  <2>1. After \in {<<>>, <<"libc.o">>, <<"libc.a">>, <<"libc.so">>, <<"libc.a", "libgcc.a", "crtn.o">>,
                   <<"libc.a", "libgcc.a", "libgcc_eh.a", "libc.a", "crtn.o">>,
                   <<"libc.so.6", "crtn.o", "libc_nonshared.a">>,
                   <<"crtn.o", "libc.so.6", "libc_nonshared.a">>}
    BY <1>1, Zenon DEF After
  <2>2. Fits(<<>>, StartUp) /\ Fits(<<"libc.o">>, StartUp) /\ Fits(<<"libc.a">>, StartUp) /\ Fits(<<"libc.so">>, StartUp)
    BY DEF Names, StartUp, Closing
  <2>3. Fits(<<"libc.a", "libgcc.a", "crtn.o">>, StartUp)
    BY DEF Names, StartUp, Closing
  <2>4. Fits(<<"libc.a", "libgcc.a", "libgcc_eh.a", "libc.a", "crtn.o">>, StartUp)
    BY DEF Names, StartUp, Closing
  <2>5. Fits(<<"libc.so.6", "crtn.o", "libc_nonshared.a">>, StartUp)
    BY DEF Names, StartUp, Closing
  <2>6. Fits(<<"crtn.o", "libc.so.6", "libc_nonshared.a">>, StartUp)
    BY DEF Names, StartUp, Closing
  <2>. QED  BY <2>1, <2>2, <2>3, <2>4, <2>5, <2>6, Zenon
<1>3. Fits(Before, Closing)
  <2>. DEFINE crt == CASE libc = "lux"  -> <<"crt0.o">>
                       [] libc = "musl" -> <<"crt1.o", "crti.o">>
                       [] libc = "glibc" -> IF static THEN <<>>
                                            ELSE IF target \in {"mips", "arm"} THEN <<"crt1.o", "crti.o">>
                                            ELSE <<"crti.o", "crt1.o">>
  <2>1. Liblux \in {<<>>, <<"liblux.o">>, <<"liblux.o", "luxmemcpy.o">>}
    BY Zenon DEF Liblux
  <2>2. crt \in {<<>>, <<"crt0.o">>, <<"crt1.o", "crti.o">>, <<"crti.o", "crt1.o">>}
    BY <1>1, Zenon
  <2>3. Before = <<"crt0.o">> \/ Before = Liblux \o crt
    BY DEF Before
  <2>4. Fits(<<>>, Closing) /\ Fits(<<"crt0.o">>, Closing) /\ Fits(<<"liblux.o">>, Closing)
    BY DEF Names, StartUp, Closing
  <2>5. Fits(<<"crt1.o", "crti.o">>, Closing) /\ Fits(<<"crti.o", "crt1.o">>, Closing)
    BY DEF Names, StartUp, Closing
  <2>6. Fits(<<"liblux.o", "luxmemcpy.o">>, Closing)
    BY DEF Names, StartUp, Closing
  <2>7. Fits(Liblux, Closing) /\ Fits(crt, Closing)
    BY <2>1, <2>2, <2>4, <2>5, <2>6, Zenon
  <2>. HIDE DEF crt
  <2>8. Fits(Liblux \o crt, Closing)
    BY <2>7
  <2>. QED  BY <2>3, <2>4, <2>8
<1>. QED  BY <1>2, <1>3

\* Before the first child process only the options and the list are at stake.
LEMMA NothingRunYet ==
  ASSUME pc' \in {"parse", "check", "target", "start"}
  PROVE  HandedOn' /\ Progress' /\ ObjectsRight' /\ LinkedAll' /\ TempsRemoved'
  BY DEF HandedOn, Progress, ObjectsRight, LinkedAll, TempsRemoved, Finished, Worked

\* When the driver gives up, nothing but its exit status matters.
LEMMA GivenUp ==
  ASSUME pc' = "exited", exst' = 1
  PROVE  /\ HandedOn' /\ Progress' /\ ObjectsRight' /\ LinkedAll' /\ TempsRemoved'
         /\ Fresh' /\ Checked' /\ Reported'
  BY DEF HandedOn, Progress, ObjectsRight, LinkedAll, TempsRemoved, Finished, Worked,
         Fresh, Checked, Reported

\* Steps that leave the list and what was asked for alone.
LEMMA ListKept ==
  ASSUME Listed, Ordered, Counted, UNCHANGED <<argv, i, options, counts, infiles>>
  PROVE  Listed' /\ Ordered' /\ Counted'
<1>1. Mode' = Mode /\ ncfls' = ncfls /\ nasmfls' = nasmfls
  BY SameMode DEF counts
<1>2. Listed'
  BY <1>1 DEF Listed
<1>3. Ordered'
  BY DEF Ordered
<1>4. Counted'
  BY <1>1 DEF Counted, AtMost
<1>. QED  BY <1>2, <1>3, <1>4

\* Their types, when they leave the files they write alone too.
LEMMA TypesKept ==
  ASSUME TypeOK, UNCHANGED <<argv, i, options, counts, infiles, pos, obj_tmps, output, linked>>,
         exst' \in {0, 1}, asm_tmp' \in Contents, failed' \subseteq DOMAIN argv,
         pc' \in {"parse", "check", "target", "start", "compile", "assemble", "asm", "link",
                  "cleanup", "done", "exited"}
  PROVE  TypeOK'
<1>1. File' = File /\ Contents' = Contents /\ Object' = Object
  BY DEF File, Contents, Object
<1>. QED  BY <1>1 DEF TypeOK, options, counts

-----------------------------------------------------------------------------
\* The invariant holds when main() starts.
LEMMA DriverStart == Init => DriverInv
<1>. SUFFICES ASSUME Init PROVE DriverInv
  OBVIOUS
<1>. USE DEF Init
<1>1. TypeOK
  <2>1. argv \in Seq(Words)
    BY DriverAssumption
  <2>2. Len(argv) \in Nat /\ Absent \in Contents
    BY <2>1 DEF Contents, Absent
  <2>3. <<>> \in Seq(File) /\ <<>> \in Seq(Contents) /\ <<>> \in Seq(Object) /\ Len(infiles) = 0
    BY EmptySeq
  <2>4. output \in [DOMAIN argv -> Contents]
    BY <2>2
  <2>5. {got_arch, outpath, alt_asm_tmp} \subseteq BOOLEAN
    OBVIOUS
  <2>. QED  BY <2>2, <2>3, <2>4, <2>5 DEF TypeOK, Machines
<1>2. Fresh /\ Checked /\ Listed /\ Ordered /\ Reported /\ LinkedRight
  BY DEF Fresh, Checked, Listed, Ordered, Reported, LinkedRight
<1>3. Counted
  BY DEF Counted, AtMost
<1>4. HandedOn /\ Progress /\ ObjectsRight /\ LinkedAll /\ TempsRemoved
  BY DEF HandedOn, Progress, ObjectsRight, LinkedAll, TempsRemoved, Finished, Worked
<1>. QED  BY <1>1, <1>2, <1>3, <1>4 DEF DriverInv

\* What the words of the command line are.
LEMMA Word ==
  ASSUME TypeOK, i <= Len(argv)
  PROVE  /\ i \in DOMAIN argv /\ word.o \in Options
         /\ word.o = "file" => word.v \in Kinds
<1>1. argv \in Seq(Words)
  BY DriverAssumption DEF TypeOK
<1>2. i \in DOMAIN argv
  BY <1>1 DEF TypeOK
<1>3. word \in Words
  BY <1>1, <1>2 DEF word
<1>. QED  BY <1>2, <1>3, DriverAssumption DEF TypeOK, word, Words

\* A file on the command line is put at the end of the list.
LEMMA ParseFile == DriverInv /\ parse_file => DriverInv'
<1>. SUFFICES ASSUME DriverInv, parse_file PROVE DriverInv'
  OBVIOUS
<1>. DEFINE f == [kind |-> word.v, src |-> i, tmp |-> 0, lib |-> ""]
<1>1. pc = "parse" /\ pc' = "parse" /\ i <= Len(argv) /\ word.o = "file" /\ i' = i + 1
  BY DEF parse_file
<1>2. infiles' = Append(infiles, f)
  BY DEF parse_file, insert_end, new_file
<1>3. /\ ncfls' = ncfls + (IF word.v = "c" THEN 1 ELSE 0)
      /\ nasmfls' = nasmfls + (IF word.v = "asm" THEN 1 ELSE 0)
      /\ notherfls' = notherfls + (IF word.v = "other" THEN 1 ELSE 0)
  BY DEF parse_file
<1>4. UNCHANGED <<argv, driver_flags, target, got_arch, outpath, alt_asm_tmp, pos, exst,
                  asm_tmp, obj_tmps, output, failed, linked>>
  BY DEF parse_file, options, files
<1>5. /\ TypeOK /\ Fresh /\ Listed /\ Ordered /\ Counted /\ Reported /\ LinkedRight
  BY DEF DriverInv
<1>6. i \in DOMAIN argv /\ argv[i] = word /\ word.v \in Kinds
  BY <1>1, <1>5, Word DEF word
<1>7. /\ Len(argv) \in Nat /\ DOMAIN argv = 1 .. Len(argv) /\ i \in Nat /\ i # 0
  BY <1>5, DriverAssumption DEF TypeOK
<1>8. /\ infiles \in Seq(File) /\ Len(infiles) \in Nat /\ DOMAIN infiles = 1 .. Len(infiles)
  BY <1>5 DEF TypeOK
<1>9. f \in File /\ f.kind = word.v /\ f.src = i /\ f.tmp = 0 /\ f.lib = ""
  <2>1. 0 \in 0 .. Len(obj_tmps)
    BY <1>5 DEF TypeOK
  <2>2. i \in 0 .. Len(argv)
    BY <1>1, <1>7
  <2>3. "" \in Names
    BY DEF Names
  <2>. QED  BY <1>6, <2>1, <2>2, <2>3 DEF File
<1>. HIDE DEF f
<1>10. /\ infiles' \in Seq(File) /\ Len(infiles') = Len(infiles) + 1
       /\ DOMAIN infiles' = 1 .. Len(infiles) + 1
       /\ infiles'[Len(infiles) + 1] = f
       /\ \A k \in DOMAIN infiles : infiles'[k] = infiles[k]
  <2>1. infiles \in Seq(File) /\ f \in File
    BY <1>8, <1>9
  <2>. QED  BY <1>2, <2>1, Appended
<1>11. TypeOK'
  <2>1. File' = File /\ Contents' = Contents /\ Object' = Object
    BY <1>4 DEF File, Contents, Object
  <2>2. i' \in 1 .. Len(argv') + 1 /\ pos' \in 1 .. Len(infiles') + 1
    BY <1>1, <1>4, <1>5, <1>7, <1>8, <1>10 DEF TypeOK
  <2>. QED  BY <1>1, <1>3, <1>4, <1>5, <1>10, <2>1, <2>2 DEF TypeOK
<1>12. Fresh' /\ Checked'
  <2>1. \A k \in DOMAIN infiles' : infiles'[k].src # 0
    <3>1. \A k \in DOMAIN infiles : infiles[k].src # 0
      BY <1>1, <1>5 DEF Fresh
    <3>2. f.src # 0
      BY <1>7, <1>9
    <3>. QED  BY <1>8, <1>10, <3>1, <3>2
  <2>. QED  BY <1>1, <1>4, <1>5, <2>1 DEF Fresh, Checked
<1>13. \A k \in DOMAIN infiles : infiles[k].tmp = 0 /\ infiles[k].src \in Nat
  <2>1. obj_tmps = <<>> /\ Len(obj_tmps) = 0
    BY <1>1, <1>5 DEF Fresh
  <2>2. \A k \in DOMAIN infiles : infiles[k] \in File
    BY <1>8
  <2>. QED  BY <1>7, <2>1, <2>2 DEF File
<1>14. \A k \in DOMAIN infiles' : k \in DOMAIN infiles \/ k = Len(infiles) + 1
  BY <1>8, <1>10
<1>15. Listed'
  <2>1. \A k \in DOMAIN infiles :
          /\ infiles[k].src = 0 => infiles[k].kind = "other"
          /\ infiles[k].src # 0 => /\ infiles[k].src < i /\ argv[infiles[k].src].o = "file"
                                   /\ infiles[k].lib = ""
                                   /\ infiles[k].kind = argv[infiles[k].src].v
    BY <1>5, <1>13 DEF Listed
  <2>2. \A k \in DOMAIN infiles : infiles[k].src < i => infiles[k].src < i'
    BY <1>1, <1>7, <1>13
  <2>3. SUFFICES ASSUME NEW k \in DOMAIN infiles', NEW g, g = infiles'[k]
                 PROVE  /\ g.src = 0 => g.kind = "other" /\ g.tmp = 0
                        /\ g.src # 0 => /\ g.src < i' /\ argv[g.src].o = "file" /\ g.lib = ""
                                        /\ g.tmp = 0 => g.kind = argv[g.src].v
                        /\ g.tmp = 0
    BY <1>4 DEF Listed
  <2>4. CASE k \in DOMAIN infiles
    <3>1. g = infiles[k]
      BY <1>10, <2>3, <2>4
    <3>. QED  BY <1>13, <2>1, <2>2, <2>4, <3>1
  <2>5. CASE k = Len(infiles) + 1
    <3>1. g = f
      BY <1>10, <2>3, <2>5
    <3>2. i < i' /\ i \in Nat
      BY <1>1, <1>7
    <3>3. g.src = i /\ g.kind = word.v /\ g.tmp = 0 /\ g.lib = ""
      BY <1>9, <3>1
    <3>4. i # 0 /\ word.o = "file" /\ argv[i] = word
      BY <1>1, <1>6, <1>7
    <3>. QED  BY <3>2, <3>3, <3>4
  <2>. QED  BY <1>14, <2>4, <2>5
<1>16. Ordered'
  <2>1. \A k \in DOMAIN infiles : infiles[k].src # 0 => infiles[k].src < i /\ infiles[k].lib = ""
    BY <1>5 DEF Listed
  <2>2. SUFFICES ASSUME NEW j \in DOMAIN infiles', NEW k \in DOMAIN infiles', j < k
                 PROVE  /\ infiles'[j].src # 0 /\ infiles'[k].src # 0 => infiles'[j].src < infiles'[k].src
                        /\ infiles'[k].lib \in StartUp => infiles'[j].src = 0
                        /\ infiles'[j].lib \in Closing => infiles'[k].src = 0
    BY DEF Ordered
  <2>3. j \in DOMAIN infiles /\ infiles'[j] = infiles[j]
    BY <1>8, <1>10, <2>2
  <2>4. CASE k \in DOMAIN infiles
    <3>1. infiles'[k] = infiles[k]
      BY <1>10, <2>4
    <3>. QED  BY <1>5, <2>2, <2>3, <2>4, <3>1 DEF Ordered
  <2>5. CASE k = Len(infiles) + 1
    <3>1. infiles'[k].src = i /\ infiles'[k].lib = ""
      BY <1>9, <1>10, <2>5
    <3>2. "" \notin StartUp /\ "" \notin Closing
      BY DEF StartUp, Closing
    <3>3. infiles[j].src < i /\ infiles[j].lib = ""
      BY <1>1, <1>5, <2>1, <2>3 DEF Fresh
    <3>. QED  BY <2>3, <3>1, <3>2, <3>3
  <2>. QED  BY <1>14, <2>4, <2>5
<1>17. Counted'
  <2>1. \A k \in DOMAIN infiles' : infiles'[k] = IF k \in DOMAIN infiles THEN infiles[k] ELSE f
    BY <1>8, <1>10, <1>14
  <2>2. ncfls \in Nat /\ nasmfls \in Nat
    BY <1>5 DEF TypeOK
  <2>3. ASSUME NEW kind, NEW n \in Nat, AtMost(kind, n),
               NEW m, m = n + (IF word.v = kind THEN 1 ELSE 0)
        PROVE  AtMost(kind, m)'
    <3>1. SUFFICES ASSUME NEW j \in DOMAIN infiles', NEW k \in DOMAIN infiles',
                          infiles'[j].kind = kind, infiles'[k].kind = kind
                   PROVE  m # 0 /\ (m = 1 => j = k)
      BY DEF AtMost
    <3>2. CASE word.v = kind
      <4>1. m = n + 1
        BY <2>3, <3>2
      <4>2. ASSUME n = 0 PROVE j = Len(infiles) + 1 /\ k = Len(infiles) + 1
        BY <1>14, <2>1, <2>3, <3>1, <4>2 DEF AtMost
      <4>. QED  BY <2>3, <4>1, <4>2
    <3>3. CASE word.v # kind
      <4>1. m = n
        BY <2>3, <3>3
      <4>2. j \in DOMAIN infiles /\ k \in DOMAIN infiles
        BY <1>9, <2>1, <3>1, <3>3
      <4>. QED  BY <2>1, <2>3, <3>1, <4>1, <4>2 DEF AtMost
    <3>. QED  BY <3>2, <3>3
  <2>4. AtMost("c", ncfls)' /\ AtMost("asm", nasmfls)'
    BY <1>3, <1>5, <2>2, <2>3 DEF Counted
  <2>. QED  BY <2>4 DEF Counted
<1>18. LinkedRight' /\ Reported'
  BY <1>4, <1>5, LinkedKept DEF Reported
<1>. QED  BY <1>1, <1>11, <1>12, <1>15, <1>16, <1>17, <1>18, NothingRunYet DEF DriverInv

\* An option changes what is asked for, not the list.
LEMMA ParseOption == DriverInv /\ parse_option => DriverInv'
<1>. SUFFICES ASSUME DriverInv, parse_option PROVE DriverInv'
  OBVIOUS
<1>1. pc = "parse" /\ pc' = "parse" /\ i <= Len(argv) /\ HasArgument
      /\ i' = IF NeedsNext THEN i + 2 ELSE i + 1
  BY DEF parse_option
<1>2. /\ driver_flags' = (driver_flags \ ClearedBy(word.o)) \cup SetBy(word.o)
      /\ target' = IF word.o = "m" /\ ~got_arch /\ word.v \in Machines THEN word.v ELSE target
      /\ got_arch' = (got_arch \/ word.o = "m")
      /\ outpath' = (outpath \/ word.o = "o")
      /\ alt_asm_tmp' = (alt_asm_tmp \/ word.o = "alt-asm-tmp")
  BY DEF parse_option
<1>3. UNCHANGED <<argv, infiles, ncfls, nasmfls, notherfls, pos, exst, asm_tmp, obj_tmps, output,
                  failed, linked>>
  BY DEF parse_option, counts, files
<1>4. /\ TypeOK /\ Fresh /\ Listed /\ Ordered /\ Counted /\ Reported /\ LinkedRight
  BY DEF DriverInv
<1>5. Len(argv) \in Nat /\ i \in 1 .. Len(argv) + 1
  BY <1>4, DriverAssumption DEF TypeOK
<1>6. i' \in 1 .. Len(argv) + 1 /\ i < i'
  BY <1>1, <1>5 DEF HasArgument
<1>7. TypeOK'
  <2>1. File' = File /\ Contents' = Contents /\ Object' = Object
    BY <1>3 DEF File, Contents, Object
  <2>2. SetBy(word.o) \subseteq {"HELP", "PREP_ONLY", "COMP_ONLY", "NOLINK", "ANALYZE_ONLY",
                                 "GLIBC", "MUSL", "STATIC"}
    BY DEF SetBy
  <2>3. target' \in Machines /\ {got_arch, outpath, alt_asm_tmp}' \subseteq BOOLEAN
    BY <1>2, <1>4 DEF TypeOK
  <2>. QED  BY <1>1, <1>2, <1>3, <1>4, <1>6, <2>1, <2>2, <2>3 DEF TypeOK
<1>8. Listed'
  <2>1. \A k \in DOMAIN infiles : infiles[k].tmp = 0 /\ infiles[k].src \in Nat
    <3>1. obj_tmps = <<>> /\ Len(obj_tmps) = 0
      BY <1>1, <1>4 DEF Fresh
    <3>2. \A k \in DOMAIN infiles : infiles[k] \in File
      BY <1>4 DEF TypeOK
    <3>. QED  BY <1>5, <3>1, <3>2 DEF File
  <2>2. SUFFICES ASSUME NEW k \in DOMAIN infiles
                 PROVE  infiles[k].src # 0 => infiles[k].src < i'
    BY <1>3, <1>4, <2>1 DEF Listed
  <2>3. infiles[k].src # 0 => infiles[k].src < i
    BY <1>4 DEF Listed
  <2>. QED  BY <1>5, <1>6, <2>1, <2>3
<1>9. Ordered' /\ Counted'
  BY <1>3, <1>4 DEF Ordered, Counted, AtMost
<1>10. Fresh' /\ Checked'
  BY <1>1, <1>3, <1>4 DEF Fresh, Checked
<1>11. LinkedRight' /\ Reported'
  BY <1>3, <1>4, LinkedKept DEF Reported
<1>. QED  BY <1>1, <1>7, <1>8, <1>9, <1>10, <1>11, NothingRunYet DEF DriverInv

\* Giving up on the command line, its end, and the checks.
LEMMA EndOfLine == DriverInv /\ (bad_option \/ end_parse \/ check_options) => DriverInv'
<1>. SUFFICES ASSUME DriverInv, bad_option \/ end_parse \/ check_options PROVE DriverInv'
  OBVIOUS
<1>1. /\ pc \in {"parse", "check"} /\ exst' \in {0, 1}
      /\ UNCHANGED <<argv, i, options, infiles, counts, pos, asm_tmp, obj_tmps, output, failed, linked>>
  BY DEF bad_option, end_parse, check_options, Exit, files, DriverInv, TypeOK
<1>2. \/ pc' = "exited"
      \/ pc' = "check"
      \/ pc' = "target" /\ ~TooManyFiles /\ "HELP" \notin driver_flags
      \/ pc' = "done" /\ (TooManyFiles \/ "HELP" \in driver_flags \/ exst' = 1)
  BY DEF bad_option, end_parse, check_options, Exit
<1>3. /\ TypeOK /\ Fresh /\ Listed /\ Ordered /\ Counted /\ Reported /\ LinkedRight
  BY DEF DriverInv
<1>4. TypeOK'
  BY <1>1, <1>2, <1>3, TypesKept DEF TypeOK
<1>5. Listed' /\ Ordered' /\ Counted' /\ LinkedRight'
  BY <1>1, <1>3, ListKept, LinkedKept
<1>6. TooManyFiles' = TooManyFiles /\ driver_flags' = driver_flags
  BY <1>1, SameMode DEF options
<1>7. pos = 1 /\ asm_tmp = Absent /\ obj_tmps = <<>> /\ failed = {} /\ linked = <<>>
      /\ \A k \in DOMAIN infiles : infiles[k].src # 0
  BY <1>1, <1>3 DEF Fresh
<1>8. Fresh' /\ Checked' /\ Reported'
  BY <1>1, <1>2, <1>6, <1>7 DEF Fresh, Checked, Reported
<1>9. HandedOn' /\ Progress' /\ ObjectsRight' /\ LinkedAll' /\ TempsRemoved'
  <2>1. ~Finished'
    BY <1>2, <1>6 DEF Finished, Worked
  <2>. QED  BY <1>1, <1>2, <1>7, <2>1 DEF HandedOn, Progress, ObjectsRight, LinkedAll, TempsRemoved
<1>. QED  BY <1>4, <1>5, <1>8, <1>9 DEF DriverInv

\* The files of the library are put around the user's.
LEMMA SelectTarget == DriverInv /\ select_target => DriverInv'
<1>. SUFFICES ASSUME DriverInv, select_target PROVE DriverInv'
  OBVIOUS
<1>1. /\ pc = "target"
      /\ UNCHANGED <<argv, i, options, ncfls, nasmfls, pos, asm_tmp, obj_tmps, output, failed, linked>>
  BY DEF select_target, files
<1>2. /\ TypeOK /\ Fresh /\ Checked /\ Listed /\ Ordered /\ Counted /\ Reported /\ LinkedRight
  BY DEF DriverInv
<1>3. LinkedRight'
  BY <1>1, <1>2, LinkedKept
<1>4. CASE Exit /\ UNCHANGED <<infiles, notherfls>>
  <2>1. pc' = "exited" /\ exst' = 1 /\ UNCHANGED <<infiles, counts>>
    BY <1>1, <1>4 DEF Exit, counts
  <2>2. TypeOK'
    BY <1>1, <1>2, <2>1, TypesKept DEF TypeOK
  <2>3. Listed' /\ Ordered' /\ Counted'
    BY <1>1, <1>2, <2>1, ListKept
  <2>. QED  BY <1>3, <2>1, <2>2, <2>3, GivenUp DEF DriverInv
<1>5. CASE /\ infiles' = Library(Before) \o infiles \o Library(After)
           /\ notherfls' = notherfls + Len(Before) + Len(After)
           /\ pc' = "start" /\ UNCHANGED exst
  <2>. DEFINE B == Library(Before)  A == Library(After)  nb == Len(Before)  n == Len(infiles)
              na == Len(After)
  <2>1. /\ infiles \in Seq(File) /\ n \in Nat /\ n = Len(infiles) /\ DOMAIN infiles = 1 .. n
        /\ nb \in Nat /\ na \in Nat /\ DOMAIN Before = 1 .. nb /\ DOMAIN After = 1 .. na
    BY <1>2, LibraryNames DEF TypeOK
  <2>2. /\ DOMAIN B = 1 .. nb /\ DOMAIN A = 1 .. na
        /\ \A k \in 1 .. nb : B[k] = new_file("other", 0, Before[k])
        /\ \A k \in 1 .. na : A[k] = new_file("other", 0, After[k])
    BY <2>1 DEF Library
  <2>3. \A x \in Names : new_file("other", 0, x) \in File
    <3>1. 0 \in 0 .. Len(argv) /\ 0 \in 0 .. Len(obj_tmps)
      BY <1>2, DriverAssumption DEF TypeOK
    <3>. QED  BY <3>1 DEF new_file, File, Kinds
  <2>4. B \in Seq(File) /\ A \in Seq(File) /\ Len(B) = nb /\ Len(A) = na
    <3>1. B \in [1 .. nb -> File] /\ A \in [1 .. na -> File]
      <4>1. \A k \in 1 .. nb : Before[k] \in Names
        BY <2>1, LibraryNames
      <4>2. \A k \in 1 .. na : After[k] \in Names
        BY <2>1, LibraryNames
      <4>. QED  BY <2>1, <2>2, <2>3, <4>1, <4>2 DEF Library
    <3>2. B \in Seq(File) /\ A \in Seq(File)
      BY <2>1, <3>1, SeqDef
    <3>. QED  BY <2>1, <2>2, <3>2
  <2>5. infiles' = B \o infiles \o A
    BY <1>5
  <2>6. \A k \in 1 .. nb : B[k].kind = "other" /\ B[k].src = 0 /\ B[k].tmp = 0 /\ B[k].lib \notin Closing
    BY <2>1, <2>2, LibraryNames DEF new_file
  <2>7. \A k \in 1 .. na : A[k].kind = "other" /\ A[k].src = 0 /\ A[k].tmp = 0 /\ A[k].lib \notin StartUp
    BY <2>1, <2>2, LibraryNames DEF new_file
  <2>. HIDE DEF A, B, nb, na, n
  <2>8. /\ infiles' \in Seq(File) /\ Len(infiles') = nb + n + na
        /\ DOMAIN infiles' = 1 .. nb + n + na
        /\ \A k \in 1 .. nb : infiles'[k] = B[k]
        /\ \A k \in 1 .. n : infiles'[nb + k] = infiles[k]
        /\ \A k \in 1 .. na : infiles'[nb + n + k] = A[k]
    <3>1. /\ infiles' \in Seq(File) /\ Len(infiles') = Len(B) + Len(infiles) + Len(A)
          /\ DOMAIN infiles' = 1 .. Len(B) + Len(infiles) + Len(A)
          /\ \A k \in 1 .. Len(B) : infiles'[k] = B[k]
          /\ \A k \in 1 .. Len(infiles) : infiles'[Len(B) + k] = infiles[k]
          /\ \A k \in 1 .. Len(A) : infiles'[Len(B) + Len(infiles) + k] = A[k]
      <4>1. B \in Seq(File) /\ infiles \in Seq(File) /\ A \in Seq(File)
        BY <2>1, <2>4
      <4>. QED  BY <2>5, <4>1, Around
    <3>. QED  BY <2>1, <2>4, <3>1
  \* A file of the new list is one before, one of the user's, or one after.
  <2>. DEFINE Front(k) == k \in 1 .. nb /\ infiles'[k] = B[k]
              User(k)  == k - nb \in 1 .. n /\ infiles'[k] = infiles[k - nb]
              Back(k)  == k - nb - n \in 1 .. na /\ infiles'[k] = A[k - nb - n]
  <2>9. ASSUME NEW k \in DOMAIN infiles' PROVE Front(k) \/ User(k) \/ Back(k)
    <3>1. CASE k <= nb
      BY <2>1, <2>8, <2>9, <3>1
    <3>2. CASE nb < k /\ k <= nb + n
      <4>1. k - nb \in 1 .. n /\ nb + (k - nb) = k
        BY <2>1, <2>8, <2>9, <3>2
      <4>2. infiles'[nb + (k - nb)] = infiles[k - nb]
        BY <2>8, <4>1
      <4>. QED  BY <4>1, <4>2
    <3>3. CASE nb + n < k
      <4>0. k \in Nat /\ k <= nb + n + na
        BY <2>1, <2>8, <2>9
      <4>1. k - nb - n \in 1 .. na /\ nb + n + (k - nb - n) = k
        BY <2>1, <3>3, <4>0
      <4>2. infiles'[nb + n + (k - nb - n)] = A[k - nb - n]
        BY <2>8, <4>1
      <4>. QED  BY <4>1, <4>2
    <3>. QED  BY <2>1, <2>8, <3>1, <3>2, <3>3
  <2>10. ASSUME NEW k \in DOMAIN infiles', infiles'[k].src # 0 \/ infiles'[k].kind # "other"
         PROVE  User(k)
    BY <2>6, <2>7, <2>9, <2>10
  <2>11. UNCHANGED <<Mode, TooManyFiles, driver_flags>>
    BY <1>1 DEF Mode, TooManyFiles, Single, options
  <2>12. TypeOK'
    <3>1. File' = File /\ Contents' = Contents /\ Object' = Object
      BY <1>1 DEF File, Contents, Object
    <3>2. pos' \in 1 .. Len(infiles') + 1
      BY <1>1, <1>2, <2>1, <2>8 DEF Fresh
    <3>3. notherfls' \in Nat
      BY <1>2, <1>5, <2>1 DEF TypeOK, na, nb
    <3>. QED  BY <1>1, <1>2, <1>5, <2>8, <3>1, <3>2, <3>3 DEF TypeOK, options
  <2>13. Fresh' /\ Checked' /\ Reported'
    BY <1>1, <1>2, <1>5, <2>11 DEF Fresh, Checked, Reported
  <2>14. Listed'
    <3>1. SUFFICES ASSUME NEW k \in DOMAIN infiles', NEW g, g = infiles'[k]
                   PROVE  /\ g.src = 0 => g.kind = "other" /\ g.tmp = 0
                          /\ g.src # 0 => /\ g.src < i /\ argv[g.src].o = "file" /\ g.lib = ""
                                          /\ g.tmp = 0 => g.kind = argv[g.src].v
                          /\ g.tmp # 0 => Mode = "link" /\ g.kind = "other" /\ argv[g.src].v \in {"c", "asm"}
      BY <1>1, <2>11 DEF Listed
    <3>2. CASE User(k)
      <4>1. PICK j : j \in DOMAIN infiles /\ g = infiles[j]
        BY <2>1, <3>1, <3>2
      <4>. QED  BY <1>2, <4>1 DEF Listed
    <3>. QED  BY <2>6, <2>7, <2>9, <3>1, <3>2
  <2>15. Ordered'
    <3>1. SUFFICES ASSUME NEW j \in DOMAIN infiles', NEW k \in DOMAIN infiles', j < k
                   PROVE  /\ infiles'[j].src # 0 /\ infiles'[k].src # 0 => infiles'[j].src < infiles'[k].src
                          /\ infiles'[k].lib \in StartUp => infiles'[j].src = 0
                          /\ infiles'[j].lib \in Closing => infiles'[k].src = 0
      BY DEF Ordered
    <3>2. CASE Front(j)
      BY <2>6, <3>2
    <3>3. CASE User(j) /\ User(k)
      <4>1. j - nb < k - nb
        BY <2>1, <2>8, <3>1
      <4>. QED  BY <1>2, <2>1, <3>3, <4>1 DEF Ordered
    <3>4. CASE Back(k)
      BY <2>7, <3>4
    <3>5. ~(User(j) /\ Front(k)) /\ ~(Back(j) /\ Front(k)) /\ ~(Back(j) /\ User(k))
      BY <2>1, <2>8, <3>1
    <3>. QED  BY <2>7, <2>9, <3>2, <3>3, <3>4, <3>5
  <2>16. Counted'
    <3>1. ASSUME NEW kind \in {"c", "asm"}, NEW m, AtMost(kind, m) PROVE AtMost(kind, m)'
      <4>1. SUFFICES ASSUME NEW j \in DOMAIN infiles', NEW k \in DOMAIN infiles',
                            infiles'[j].kind = kind, infiles'[k].kind = kind
                     PROVE  m # 0 /\ (m = 1 => j = k)
        BY DEF AtMost
      <4>2. User(j) /\ User(k)
        BY <2>10, <3>1, <4>1
      <4>3. m # 0 /\ (m = 1 => j - nb = k - nb)
        BY <2>1, <3>1, <4>1, <4>2 DEF AtMost
      <4>. QED  BY <2>1, <2>8, <4>3
    <3>. QED  BY <1>1, <1>2, <3>1 DEF Counted
  <2>. QED  BY <1>3, <1>5, <2>12, <2>13, <2>14, <2>15, <2>16, NothingRunYet DEF DriverInv
<1>. QED  BY <1>4, <1>5 DEF select_target

-----------------------------------------------------------------------------
\* The loops begin, unless there is nothing to do.
LEMMA Start == DriverInv /\ start => DriverInv'
<1>. SUFFICES ASSUME DriverInv, start PROVE DriverInv'
  OBVIOUS
<1>. DEFINE idle == \/ Mode = "compile_only" /\ ncfls = 0
                    \/ Mode = "nolink" /\ ncfls = 0 /\ nasmfls = 0
<1>1. /\ pc = "start"
      /\ UNCHANGED <<argv, i, options, infiles, counts, pos, exst, obj_tmps, output, failed, linked>>
      /\ pc' = IF idle THEN "done" ELSE "compile"
      /\ asm_tmp' \in {Junk, asm_tmp} /\ (idle => asm_tmp' = asm_tmp)
  BY DEF start
<1>. HIDE DEF idle
<1>2. /\ TypeOK /\ Fresh /\ Checked /\ Listed /\ Ordered /\ Counted /\ Reported /\ LinkedRight
  BY DEF DriverInv
<1>3. Mode' = Mode /\ TooManyFiles' = TooManyFiles /\ Translates' = Translates /\ driver_flags' = driver_flags
  BY <1>1, SameMode DEF options
<1>4. pos = 1 /\ asm_tmp = Absent /\ obj_tmps = <<>> /\ failed = {} /\ linked = <<>>
  BY <1>1, <1>2 DEF Fresh
<1>5. TypeOK'
  <2>1. asm_tmp' \in Contents
    BY <1>1, <1>2, DriverAssumption DEF Contents, Junk, Absent, TypeOK
  <2>. QED  BY <1>1, <1>2, <2>1, TypesKept DEF TypeOK
<1>6. Listed' /\ Ordered' /\ Counted' /\ LinkedRight'
  BY <1>1, <1>2, ListKept, LinkedKept
<1>7. Fresh' /\ Checked' /\ Reported' /\ HandedOn'
  BY <1>1, <1>2, <1>3, <1>4 DEF Fresh, Checked, Reported, HandedOn
<1>8. Progress' /\ LinkedAll' /\ TempsRemoved' /\ ObjectsRight'
  <2>1. CASE idle
    <3>1. pc' = "done" /\ asm_tmp' = Absent /\ obj_tmps' = <<>> /\ Mode # "link"
      BY <1>1, <1>4, <2>1 DEF idle
    <3>2. ASSUME NEW k \in DOMAIN infiles, infiles[k].kind \in Translates PROVE FALSE
      BY <1>2, <2>1, <3>2 DEF idle, Counted, AtMost, Translates
    <3>3. Through(Translates, Len(infiles) + 1)'
      BY <1>1, <1>3, <3>2 DEF Through
    <3>. QED  BY <1>3, <3>1, <3>3 DEF Progress, LinkedAll, TempsRemoved, ObjectsRight
  <2>2. CASE ~idle
    <3>1. pc' = "compile" /\ pos' = 1 /\ obj_tmps' = <<>>
      BY <1>1, <1>4, <2>2
    <3>2. Through({"c"}, pos)'
      <4>1. \A k \in DOMAIN infiles : ~(k < 1)
        BY <1>2 DEF TypeOK
      <4>. QED  BY <1>1, <3>1, <4>1 DEF Through
    <3>3. ObjectsRight'
      <4>1. Len(obj_tmps) = 0 /\ \A k \in DOMAIN infiles : infiles[k] \in File
        BY <1>2, <1>4 DEF TypeOK
      <4>2. \A k \in DOMAIN infiles : infiles[k].tmp = 0
        BY <4>1 DEF File
      <4>. QED  BY <1>1, <4>2 DEF ObjectsRight
    <3>. QED  BY <3>1, <3>2, <3>3 DEF Progress, LinkedAll, TempsRemoved, Finished, Worked
  <2>. QED  BY <2>1, <2>2
<1>. QED  BY <1>5, <1>6, <1>7, <1>8 DEF DriverInv

-----------------------------------------------------------------------------
\* The next file of a kind in the loops.
LEMMA NextFile ==
  ASSUME TypeOK, Listed, NEW kind \in {"c", "asm"}, Todo(kind) # {}, NEW k, k = Min(Todo(kind))
  PROVE  /\ k \in DOMAIN infiles /\ pos <= k /\ infiles[k].kind = kind
         /\ \A j \in DOMAIN infiles : pos <= j /\ j < k => infiles[j].kind # kind
         /\ infiles[k].src \in DOMAIN argv /\ infiles[k].src # 0
<1>1. /\ Len(infiles) \in Nat /\ DOMAIN infiles = 1 .. Len(infiles) /\ pos \in 1 .. Len(infiles) + 1
      /\ \A j \in DOMAIN infiles : infiles[j] \in File
  BY DEF TypeOK
<1>2. Todo(kind) \in SUBSET Nat
  BY <1>1 DEF Todo
<1>3. k \in Todo(kind) /\ \A j \in Todo(kind) : k <= j
  BY <1>2, LeastOf
<1>4. k \in DOMAIN infiles /\ pos <= k /\ infiles[k].kind = kind
  BY <1>1, <1>3 DEF Todo
<1>5. \A j \in DOMAIN infiles : pos <= j /\ j < k => infiles[j].kind # kind
  BY <1>1, <1>3, <1>4 DEF Todo
<1>6. infiles[k].src # 0 /\ infiles[k].src \in 0 .. Len(argv)
  BY <1>1, <1>4 DEF Listed, File
<1>7. infiles[k].src \in DOMAIN argv
  BY <1>6, DriverAssumption DEF TypeOK
<1>. QED  BY <1>4, <1>5, <1>6, <1>7

\* A file to translate is a word of the command line.
LEMMA SourceInLine ==
  ASSUME TypeOK, Listed
  PROVE  \A j \in DOMAIN infiles : infiles[j].kind # "other" => infiles[j].src \in DOMAIN argv
<1>1. \A j \in DOMAIN infiles : infiles[j] \in File
  BY DEF TypeOK
<1>2. DOMAIN argv = 1 .. Len(argv) /\ Len(argv) \in Nat
  BY DriverAssumption DEF TypeOK
<1>3. SUFFICES ASSUME NEW j \in DOMAIN infiles, infiles[j].kind # "other"
               PROVE  infiles[j].src \in DOMAIN argv
  OBVIOUS
<1>4. infiles[j].src \in 0 .. Len(argv) /\ infiles[j].src # 0
  BY <1>1, <1>3 DEF Listed, File
<1>. QED  BY <1>2, <1>4

\* With one output there is one file to translate.
LEMMA OnlyOne ==
  ASSUME TypeOK, Counted, ~TooManyFiles, OneOutput,
         NEW j \in DOMAIN infiles, NEW k \in DOMAIN infiles,
         infiles[j].kind \in {"c", "asm"}, infiles[k].kind \in {"c", "asm"}
  PROVE  j = k
<1>1. IF nasmfls # 0 THEN nasmfls <= 1 /\ ncfls = 0 ELSE ncfls <= 1
  BY DEF TooManyFiles, OneOutput, Mode, Single, TypeOK
<1>2. ncfls \in Nat /\ nasmfls \in Nat
  BY DEF TypeOK
<1>. QED  BY <1>1, <1>2 DEF Counted, AtMost

\* What has been done for a file is not undone.
LEMMA TranslatedKept ==
  ASSUME TypeOK, Mode' = Mode, failed \subseteq failed', NEW k \in DOMAIN infiles,
         infiles'[k].src = infiles[k].src,
         \A s \in DOMAIN argv : output[s] = s => output'[s] = s,
         infiles[k].src \in DOMAIN argv, Translated(k)
  PROVE  Translated(k)'
  BY DEF Translated

\* The loops go on to the next file.
LEMMA OneMore ==
  ASSUME TypeOK, Counted, ~TooManyFiles, NEW kind \in {"c", "asm"}, Through({kind}, pos),
         NEW k \in DOMAIN infiles, pos <= k, infiles[k].kind = kind,
         \A j \in DOMAIN infiles : pos <= j /\ j < k => infiles[j].kind # kind,
         pos' = AfterThis(k), DOMAIN infiles' = DOMAIN infiles,
         \A j \in DOMAIN infiles : j # k => infiles'[j].kind = infiles[j].kind,
         \A j \in DOMAIN infiles : infiles[j].kind = kind /\ Translated(j) => Translated(j)',
         infiles'[k].kind = kind => Translated(k)'
  PROVE  Through({kind}, pos)' /\ pos' \in 1 .. Len(infiles) + 1
<1>1. /\ Len(infiles) \in Nat /\ DOMAIN infiles = 1 .. Len(infiles) /\ pos \in 1 .. Len(infiles) + 1
  BY DEF TypeOK
<1>2. pos' \in 1 .. Len(infiles) + 1
  BY <1>1 DEF AfterThis
<1>3. SUFFICES ASSUME NEW j \in DOMAIN infiles, j < pos', infiles'[j].kind = kind
               PROVE  Translated(j)'
  BY <1>2 DEF Through
<1>4. CASE j = k
  BY <1>3, <1>4
<1>5. CASE j # k
  <2>1. infiles[j].kind = kind
    BY <1>3, <1>5
  <2>2. ~OneOutput
    BY <1>5, <2>1, OnlyOne
  <2>3. j < k
    BY <1>1, <1>3, <1>5, <2>2 DEF AfterThis
  <2>4. j < pos
    BY <1>1, <2>1, <2>3
  <2>. QED  BY <2>1, <2>4 DEF Through
<1>. QED  BY <1>4, <1>5

\* The compiler on a C file.
LEMMA Compile == DriverInv /\ compile => DriverInv'
<1>. SUFFICES ASSUME DriverInv, compile PROVE DriverInv'
  OBVIOUS
<1>. PICK k : k = Min(Todo("c"))
  OBVIOUS
<1>. DEFINE src == infiles[k].src
<1>1. /\ pc = "compile" /\ Todo("c") # {}
      /\ UNCHANGED <<argv, i, options, infiles, counts, obj_tmps, linked>>
  BY DEF compile
<1>2. \/ /\ Mode = "compile_only" /\ pc' = "compile" /\ pos' = AfterThis(k)
         /\ output' = [output EXCEPT ![src] = src] /\ UNCHANGED <<exst, failed, asm_tmp>>
      \/ /\ Mode # "compile_only" /\ pc' = "assemble" /\ pos' = k
         /\ asm_tmp' = src /\ UNCHANGED <<exst, failed, output>>
      \/ /\ pc' = "compile" /\ pos' = AfterThis(k) /\ exst' = 1 /\ failed' = failed \cup {src}
         /\ asm_tmp' = (IF Mode = "compile_only" THEN asm_tmp ELSE Junk) /\ UNCHANGED output
  BY <1>1 DEF compile, Passes, Fails
<1>3. /\ TypeOK /\ Checked /\ Listed /\ Ordered /\ Counted /\ Reported /\ LinkedRight
      /\ Progress /\ ObjectsRight
  BY DEF DriverInv
<1>4. /\ k \in DOMAIN infiles /\ pos <= k /\ infiles[k].kind = "c"
      /\ \A j \in DOMAIN infiles : pos <= j /\ j < k => infiles[j].kind # "c"
      /\ src \in DOMAIN argv /\ src # 0
  BY <1>1, <1>3, NextFile
<1>5. /\ Mode' = Mode /\ TooManyFiles' = TooManyFiles /\ driver_flags' = driver_flags
      /\ File' = File /\ Contents' = Contents /\ Object' = Object
  BY <1>1, SameMode DEF options, File, Contents, Object
<1>6. /\ Len(infiles) \in Nat /\ DOMAIN infiles = 1 .. Len(infiles) /\ pos \in 1 .. Len(infiles) + 1
      /\ Len(argv) \in Nat /\ DOMAIN argv = 1 .. Len(argv)
  BY <1>3, DriverAssumption DEF TypeOK
<1>7. ~TooManyFiles /\ "HELP" \notin driver_flags
  BY <1>1, <1>3 DEF Checked
<1>8. failed \subseteq failed' /\ \A s \in DOMAIN argv : output[s] = s => output'[s] = s
  BY <1>2, <1>3, <1>4 DEF TypeOK
<1>9. \A j \in DOMAIN infiles : infiles[j].kind = "c" /\ Translated(j) => Translated(j)'
  <2>1. \A j \in DOMAIN infiles : infiles[j].kind = "c" => infiles[j].src \in DOMAIN argv
    BY <1>3, SourceInLine
  <2>. QED  BY <1>1, <1>3, <1>5, <1>8, <2>1, TranslatedKept
<1>10. pos' \in 1 .. Len(infiles) + 1 /\ Through({"c"}, pos)'
  <2>1. Through({"c"}, pos)
    BY <1>1, <1>3 DEF Progress
  <2>2. CASE pc' = "compile"
    <3>1. pos' = AfterThis(k)
      BY <1>2, <2>2
    <3>2. src \in failed' \/ (Mode = "compile_only" /\ output'[src] = src)
      BY <1>2, <1>3, <1>4, <2>2 DEF TypeOK
    <3>3. Translated(k)'
      BY <1>1, <1>5, <3>2 DEF Translated
    <3>. QED  BY <1>1, <1>3, <1>4, <1>7, <1>9, <2>1, <3>1, <3>3, OneMore
  <2>3. CASE pc' = "assemble" /\ pos' = k
    <3>1. ASSUME NEW j \in DOMAIN infiles, j < k, infiles[j].kind = "c" PROVE Translated(j)'
      <4>1. j < pos
        BY <1>4, <1>6, <3>1
      <4>. QED  BY <1>9, <2>1, <3>1, <4>1 DEF Through
    <3>. QED  BY <1>1, <1>4, <1>6, <2>3, <3>1 DEF Through
  <2>. QED  BY <1>2, <2>2, <2>3
<1>11. TypeOK'
  <2>1. asm_tmp' \in Contents /\ src \in Contents
    BY <1>2, <1>3, <1>4, <1>6 DEF TypeOK, Contents, Junk, Absent
  <2>2. exst' \in {0, 1} /\ failed' \subseteq DOMAIN argv /\ output' \in [DOMAIN argv -> Contents]
    BY <1>2, <1>3, <1>4, <2>1 DEF TypeOK
  <2>. QED  BY <1>1, <1>2, <1>3, <1>5, <1>10, <2>1, <2>2 DEF TypeOK, options, counts
<1>12. Listed' /\ Ordered' /\ Counted' /\ LinkedRight'
  BY <1>1, <1>3, ListKept, LinkedKept
<1>13. Fresh' /\ Checked' /\ Reported'
  BY <1>2, <1>3, <1>5, <1>7 DEF Fresh, Checked, Reported
<1>14. HandedOn'
  BY <1>1, <1>2, <1>4, <1>5 DEF HandedOn
<1>15. ObjectsRight'
  BY <1>1, <1>3, <1>8 DEF ObjectsRight
<1>16. Progress' /\ LinkedAll' /\ TempsRemoved'
  BY <1>2, <1>10 DEF Progress, LinkedAll, TempsRemoved, Finished, Worked
<1>. QED  BY <1>11, <1>12, <1>13, <1>14, <1>15, <1>16 DEF DriverInv

\* The end of the two loops.
LEMMA EndOfLoops == DriverInv /\ (end_compile \/ end_asm) => DriverInv'
<1>. SUFFICES ASSUME DriverInv, end_compile \/ end_asm PROVE DriverInv'
  OBVIOUS
<1>1. /\ pc \in {"compile", "asm"} /\ pc' \in {"asm", "link", "cleanup"} /\ pos' \in {1, pos}
      /\ UNCHANGED <<argv, i, options, infiles, counts, exst, asm_tmp, obj_tmps, output, failed, linked>>
  BY DEF end_compile, end_asm, files
<1>2. /\ TypeOK /\ Checked /\ Listed /\ Ordered /\ Counted /\ Reported /\ LinkedRight
      /\ Progress /\ ObjectsRight
  BY DEF DriverInv
<1>3. /\ Mode' = Mode /\ TooManyFiles' = TooManyFiles /\ driver_flags' = driver_flags
      /\ Translates' = Translates
      /\ File' = File /\ Contents' = Contents /\ Object' = Object
  BY <1>1, SameMode DEF options, File, Contents, Object
<1>4. /\ Len(infiles) \in Nat /\ DOMAIN infiles = 1 .. Len(infiles) /\ pos \in 1 .. Len(infiles) + 1
  BY <1>2 DEF TypeOK
<1>5. ~TooManyFiles /\ "HELP" \notin driver_flags
  BY <1>1, <1>2 DEF Checked
<1>6. TypeOK'
  <2>1. pos' \in 1 .. Len(infiles) + 1
    BY <1>1, <1>4
  <2>. QED  BY <1>1, <1>2, <1>3, <2>1 DEF TypeOK, options, counts
<1>7. Listed' /\ Ordered' /\ Counted' /\ LinkedRight'
  BY <1>1, <1>2, ListKept, LinkedKept
<1>8. Fresh' /\ Checked' /\ Reported' /\ HandedOn' /\ ObjectsRight' /\ TempsRemoved'
  BY <1>1, <1>2, <1>3, <1>5 DEF Fresh, Checked, Reported, HandedOn, ObjectsRight, TempsRemoved
<1>9. \A kinds, n : Through(kinds, n) => Through(kinds, n)'
  BY <1>1, <1>3 DEF Through, Translated
<1>10. ASSUME NEW kind, Todo(kind) = {}, Through({kind}, pos)
       PROVE  Through({kind}, Len(infiles) + 1)
  BY <1>4, <1>10 DEF Todo, Through
<1>11. Progress' /\ LinkedAll'
  <2>1. CASE end_compile
    <3>1. Through({"c"}, Len(infiles) + 1)
      BY <1>2, <1>10, <2>1 DEF end_compile, Progress
    <3>2. CASE pc' = "cleanup"
      <4>1. Mode = "compile_only" \/ (OneOutput /\ ncfls # 0)
        BY <2>1, <3>2 DEF end_compile
      <4>2. Mode # "link"
        BY <4>1 DEF OneOutput
      <4>3. Through(Translates, Len(infiles) + 1)
        <5>1. CASE Mode = "compile_only"
          BY <3>1, <5>1 DEF Translates
        <5>2. CASE OneOutput /\ ncfls # 0
          <6>1. nasmfls = 0
            BY <1>2, <1>5, <5>2 DEF TooManyFiles, OneOutput, Mode, Single, TypeOK
          <6>2. \A j \in DOMAIN infiles : infiles[j].kind # "asm"
            BY <1>2, <6>1 DEF Counted, AtMost
          <6>. QED  BY <3>1, <6>2 DEF Through, Translates
        <5>. QED  BY <4>1, <5>1, <5>2
      <4>. QED  BY <1>1, <1>3, <1>9, <3>2, <4>2, <4>3 DEF Progress, LinkedAll
    <3>3. CASE pc' = "asm"
      <4>1. Mode # "compile_only" /\ pos' = 1
        BY <2>1, <3>3 DEF end_compile
      <4>2. Through({"asm"}, pos)'
        BY <1>1, <1>4, <4>1 DEF Through
      <4>3. Through({"c"}, Len(infiles) + 1)'
        BY <1>1, <1>9, <3>1
      <4>. QED  BY <1>1, <1>3, <3>3, <4>1, <4>2, <4>3 DEF Progress, LinkedAll, Finished, Worked
    <3>. QED  BY <2>1, <3>2, <3>3 DEF end_compile
  <2>2. CASE end_asm
    <3>1. /\ Through({"asm"}, Len(infiles) + 1) /\ Through({"c"}, Len(infiles) + 1)
          /\ Mode # "compile_only"
      BY <1>2, <1>10, <2>2 DEF end_asm, Progress
    <3>2. Through({"c", "asm"}, Len(infiles) + 1) /\ Through(Translates, Len(infiles) + 1)
      BY <3>1 DEF Through, Translates
    <3>3. pc' = IF Mode = "link" THEN "link" ELSE "cleanup"
      BY <2>2 DEF end_asm
    <3>4. Through({"c", "asm"}, Len(infiles) + 1)' /\ Through(Translates, Len(infiles) + 1)'
      BY <1>1, <1>3, <1>9, <3>2
    <3>. QED  BY <1>3, <3>3, <3>4 DEF Progress, LinkedAll, Finished, Worked
  <2>. QED  BY <2>1, <2>2
<1>. QED  BY <1>6, <1>7, <1>8, <1>11 DEF DriverInv

\* The assembler on file k: what it does to the list, the objects and the outputs.
LEMMA AssembledFile ==
  ASSUME TypeOK, Listed, Reported, ObjectsRight, pc \in {"assemble", "asm"},
         UNCHANGED <<argv, options>>, Mode \in {"nolink", "link"},
         NEW k \in DOMAIN infiles, infiles[k].kind \in {"c", "asm"},
         NEW src, src = infiles[k].src, NEW written \in Contents,
         infiles[k].kind = "c" => written = src,
         Assembled(k, src, written)
  PROVE  /\ infiles' \in Seq(File)' /\ Len(infiles') = Len(infiles) /\ DOMAIN infiles' = DOMAIN infiles
         /\ \A j \in DOMAIN infiles : /\ infiles'[j].src = infiles[j].src
                                      /\ infiles'[j].lib = infiles[j].lib
                                      /\ j # k => infiles'[j] = infiles[j]
         /\ obj_tmps' \in Seq(Contents) /\ output' \in [DOMAIN argv -> Contents]
         /\ exst' \in {0, 1} /\ failed' \subseteq DOMAIN argv
         /\ failed \subseteq failed' /\ Reported'
         /\ \A s \in DOMAIN argv : output[s] = s => output'[s] = s
         /\ Mode = "nolink" => infiles' = infiles /\ Translated(k)'
         /\ Mode = "link" => infiles'[k].kind = "other" /\ infiles'[k].tmp # 0
         /\ \A j \in DOMAIN infiles :
              LET f == infiles'[j]
              IN  f.tmp # 0 /\ argv[f.src].v = "c" /\ f.src \notin failed' => obj_tmps'[f.tmp] = f.src
<1>1. /\ infiles \in Seq(File) /\ Len(infiles) \in Nat /\ DOMAIN infiles = 1 .. Len(infiles)
      /\ obj_tmps \in Seq(Contents) /\ Len(obj_tmps) \in Nat
      /\ \A j \in DOMAIN infiles : infiles[j] \in File
      /\ Len(argv) \in Nat /\ DOMAIN argv = 1 .. Len(argv)
  BY DriverAssumption DEF TypeOK
<1>2. src \in DOMAIN argv /\ src # 0 /\ src \in Contents /\ Junk \in Contents
  <2>1. src \in DOMAIN argv
    BY SourceInLine
  <2>. QED  BY <1>1, <2>1 DEF Contents, Junk, Absent
<1>3. Mode' = Mode /\ infiles[k].tmp = 0 /\ argv[src].v = infiles[k].kind
  BY <1>2, SameMode DEF Listed, Mode, options
<1>4. failed \subseteq failed' /\ failed' \subseteq DOMAIN argv /\ exst' \in {0, 1} /\ Reported'
      /\ (src \in failed' \/ failed' = failed)
  BY <1>2 DEF Assembled, Passes, Fails, TypeOK, Reported
<1>5. output' \in [DOMAIN argv -> Contents] /\ \A s \in DOMAIN argv : output[s] = s => output'[s] = s
  BY <1>2 DEF Assembled, TypeOK
<1>6. CASE Mode = "nolink"
  <2>1. infiles' = infiles /\ obj_tmps' = obj_tmps /\ (src \in failed' \/ output'[src] = src)
    BY <1>2, <1>6 DEF Assembled, Passes, Fails, TypeOK
  <2>2. Translated(k)'
    BY <1>3, <1>6, <2>1 DEF Translated
  <2>3. File' = File
    BY <2>1 DEF File
  <2>4. \A j \in DOMAIN infiles :
          LET f == infiles[j]
          IN  f.tmp # 0 /\ argv[f.src].v = "c" /\ f.src \notin failed' => obj_tmps[f.tmp] = f.src
    BY <1>4 DEF ObjectsRight
  <2>. QED  BY <1>1, <1>4, <1>5, <1>6, <2>1, <2>2, <2>3, <2>4
<1>7. CASE Mode = "link"
  <2>. DEFINE n == Len(obj_tmps) + 1  f == [infiles[k] EXCEPT !.kind = "other", !.tmp = n]
  <2>1. PICK e \in {written, Junk} :
          /\ obj_tmps' = Append(obj_tmps, e)
          /\ infiles' = [infiles EXCEPT ![k].kind = "other", ![k].tmp = Len(obj_tmps) + 1]
          /\ src \in failed' \/ e = written
    BY <1>7 DEF Assembled, Passes, Fails
  <2>2. /\ obj_tmps' \in Seq(Contents) /\ Len(obj_tmps') = Len(obj_tmps) + 1
        /\ obj_tmps'[n] = e /\ \A j \in DOMAIN obj_tmps : obj_tmps'[j] = obj_tmps[j]
    BY <1>1, <1>2, <2>1, Appended
  <2>3. DOMAIN infiles' = DOMAIN infiles /\ infiles'[k] = f /\ \A j \in DOMAIN infiles : j # k => infiles'[j] = infiles[j]
    BY <1>1, <2>1
  <2>4. f.kind = "other" /\ f.src = src /\ f.tmp = n /\ f.lib = infiles[k].lib
    BY <1>1 DEF File
  <2>5. n \in Nat /\ n # 0 /\ DOMAIN obj_tmps = 1 .. Len(obj_tmps)
    BY <1>1
  <2>6. f \in File' /\ \A j \in DOMAIN infiles : infiles[j] \in File'
    <3>1. \A x \in 0 .. Len(obj_tmps) : x \in 0 .. Len(obj_tmps')
      BY <1>1, <2>2
    <3>2. n \in 0 .. Len(obj_tmps')
      BY <2>2, <2>5
    <3>. QED  BY <1>1, <3>1, <3>2 DEF File, Kinds
  <2>. HIDE DEF f, n
  <2>7. infiles' \in Seq(File)' /\ Len(infiles') = Len(infiles)
    <3>1. infiles' \in [1 .. Len(infiles) -> File']
      BY <1>1, <2>1, <2>3, <2>6
    <3>. QED  BY <1>1, <2>3, <3>1, SeqDef
  <2>8. ASSUME NEW j \in DOMAIN infiles, NEW g, g = infiles'[j],
               g.tmp # 0, argv[g.src].v = "c", g.src \notin failed'
        PROVE  obj_tmps'[g.tmp] = g.src
    <3>1. CASE j = k
      <4>1. g.src = src /\ g.tmp = n
        BY <2>3, <2>4, <2>8, <3>1
      <4>2. e = src
        BY <1>3, <2>1, <2>8, <4>1
      <4>. QED  BY <2>2, <4>1, <4>2
    <3>2. CASE j # k
      <4>1. g = infiles[j] /\ g.tmp \in DOMAIN obj_tmps
        BY <1>1, <2>3, <2>5, <2>8, <3>2 DEF File
      <4>. QED  BY <1>4, <2>2, <2>8, <4>1 DEF ObjectsRight
    <3>. QED  BY <3>1, <3>2
  <2>. QED  BY <1>4, <1>5, <1>7, <2>2, <2>3, <2>4, <2>5, <2>7, <2>8
<1>. QED  BY <1>6, <1>7

\* After the assembler the loop goes on, with the file's object in its place or its output written.
LEMMA AssembledStep ==
  ASSUME DriverInv, pc \in {"assemble", "asm"},
         UNCHANGED <<argv, i, options, counts, asm_tmp, linked>>,
         NEW kind \in {"c", "asm"}, kind = "c" <=> pc = "assemble",
         NEW k \in DOMAIN infiles, pos <= k, infiles[k].kind = kind,
         \A j \in DOMAIN infiles : pos <= j /\ j < k => infiles[j].kind # kind,
         pos' = AfterThis(k), pc' = IF pc = "assemble" THEN "compile" ELSE "asm",
         NEW written \in Contents, kind = "c" => written = infiles[k].src,
         Assembled(k, infiles[k].src, written)
  PROVE  DriverInv'
<1>1. /\ TypeOK /\ Checked /\ Listed /\ Ordered /\ Counted /\ Reported /\ LinkedRight
      /\ Progress /\ ObjectsRight /\ HandedOn
  BY DEF DriverInv
<1>2. /\ Mode' = Mode /\ TooManyFiles' = TooManyFiles /\ driver_flags' = driver_flags
      /\ Contents' = Contents /\ Object' = Object
  BY SameMode DEF options, Contents, Object
<1>3. Mode \in {"nolink", "link"}
  BY <1>1 DEF HandedOn, Progress, Mode
<1>4. ~TooManyFiles /\ "HELP" \notin driver_flags
  BY <1>1 DEF Checked
<1>5. /\ infiles' \in Seq(File)' /\ Len(infiles') = Len(infiles) /\ DOMAIN infiles' = DOMAIN infiles
      /\ \A j \in DOMAIN infiles : /\ infiles'[j].src = infiles[j].src
                                   /\ infiles'[j].lib = infiles[j].lib
                                   /\ j # k => infiles'[j] = infiles[j]
      /\ obj_tmps' \in Seq(Contents) /\ output' \in [DOMAIN argv -> Contents]
      /\ exst' \in {0, 1} /\ failed' \subseteq DOMAIN argv
      /\ failed \subseteq failed' /\ Reported'
      /\ \A s \in DOMAIN argv : output[s] = s => output'[s] = s
      /\ Mode = "nolink" => infiles' = infiles /\ Translated(k)'
      /\ Mode = "link" => infiles'[k].kind = "other" /\ infiles'[k].tmp # 0
      /\ \A j \in DOMAIN infiles :
           LET f == infiles'[j]
           IN  f.tmp # 0 /\ argv[f.src].v = "c" /\ f.src \notin failed' => obj_tmps'[f.tmp] = f.src
  BY <1>1, <1>3, AssembledFile
<1>6. \A j \in DOMAIN infiles : infiles'[j].kind = "other" \/ infiles'[j] = infiles[j]
  BY <1>3, <1>5
<1>7. \A j \in DOMAIN infiles : infiles[j].kind # "other" /\ Translated(j) => Translated(j)'
  <2>1. \A j \in DOMAIN infiles : infiles[j].kind # "other" => infiles[j].src \in DOMAIN argv
    BY <1>1, SourceInLine
  <2>. QED  BY <1>1, <1>2, <1>5, <2>1, TranslatedKept
<1>8. pos' \in 1 .. Len(infiles) + 1 /\ Through({kind}, pos)'
  <2>1. Through({kind}, pos)
    BY <1>1 DEF Progress
  <2>2. infiles'[k].kind = kind => Translated(k)'
    BY <1>3, <1>5
  <2>3. \A j \in DOMAIN infiles : infiles[j].kind = kind /\ Translated(j) => Translated(j)'
    BY <1>7
  <2>. QED  BY <1>1, <1>4, <1>5, <2>1, <2>2, <2>3, OneMore
<1>9. TypeOK'
  BY <1>1, <1>2, <1>5, <1>8 DEF TypeOK, options, counts
<1>10. Listed'
  <2>0. argv' = argv /\ i' = i /\ Mode' = Mode /\ DOMAIN infiles' = DOMAIN infiles
    BY <1>2, <1>5
  <2>1. SUFFICES ASSUME NEW j \in DOMAIN infiles', NEW g, g = infiles'[j]
                 PROVE  /\ g.src = 0 => g.kind = "other" /\ g.tmp = 0
                        /\ g.src # 0 => /\ g.src < i' /\ argv'[g.src].o = "file" /\ g.lib = ""
                                        /\ g.tmp = 0 => g.kind = argv'[g.src].v
                        /\ g.tmp # 0 => Mode' = "link" /\ g.kind = "other" /\ argv'[g.src].v \in {"c", "asm"}
    BY DEF Listed
  <2>2. SUFFICES /\ g.src = 0 => g.kind = "other" /\ g.tmp = 0
                 /\ g.src # 0 => /\ g.src < i /\ argv[g.src].o = "file" /\ g.lib = ""
                                 /\ g.tmp = 0 => g.kind = argv[g.src].v
                 /\ g.tmp # 0 => Mode = "link" /\ g.kind = "other" /\ argv[g.src].v \in {"c", "asm"}
    BY <2>0
  <2>3. CASE infiles'[j] = infiles[j]
    BY <1>1, <2>0, <2>1, <2>3 DEF Listed
  <2>4. CASE j = k /\ Mode = "link"
    <3>1. g.kind = "other" /\ g.tmp # 0 /\ g.src = infiles[k].src /\ g.lib = infiles[k].lib
      BY <1>5, <2>1, <2>4
    <3>2. infiles[k].src # 0 /\ infiles[k].tmp = 0
      BY <1>1 DEF Listed
    <3>3. /\ infiles[k].src < i /\ argv[infiles[k].src].o = "file" /\ infiles[k].lib = ""
          /\ argv[infiles[k].src].v = kind
      BY <1>1, <3>2 DEF Listed
    <3>. QED  BY <2>4, <3>1, <3>2, <3>3
  <2>. QED  BY <1>3, <1>5, <2>0, <2>1, <2>3, <2>4
<1>11. Ordered' /\ LinkedRight'
  BY <1>1, <1>5, OrderKept, LinkedKept
<1>12. Counted'
  BY <1>1, <1>5, <1>6 DEF Counted, AtMost, counts
<1>13. Fresh' /\ Checked' /\ HandedOn' /\ TempsRemoved'
  BY <1>2, <1>4 DEF Fresh, Checked, HandedOn, TempsRemoved
<1>14. ObjectsRight'
  BY <1>5 DEF ObjectsRight
<1>15. Progress' /\ LinkedAll'
  <2>1. CASE pc = "assemble"
    BY <1>8, <2>1 DEF Progress, LinkedAll, Finished, Worked
  <2>2. CASE pc = "asm"
    <3>1. kind = "asm" /\ pc' = "asm"
      BY <2>2
    <3>2. Through({"c"}, Len(infiles) + 1)'
      <4>1. SUFFICES ASSUME NEW j \in DOMAIN infiles, infiles'[j].kind = "c", j < Len(infiles) + 1
                     PROVE  Translated(j)'
        BY <1>5 DEF Through
      <4>2. infiles[j].kind = "c"
        BY <1>6, <4>1
      <4>3. Translated(j)
        BY <1>1, <2>2, <4>1, <4>2 DEF Progress, Through
      <4>. QED  BY <1>7, <4>2, <4>3
    <3>. QED  BY <1>2, <1>3, <1>8, <3>1, <3>2 DEF Progress, LinkedAll, Finished, Worked
  <2>. QED  BY <2>1, <2>2
<1>. QED  BY <1>5, <1>9, <1>10, <1>11, <1>12, <1>13, <1>14, <1>15 DEF DriverInv

\* The two places that run the assembler.
LEMMA Assemble == DriverInv /\ (assemble \/ assemble_file) => DriverInv'
<1>1. ASSUME DriverInv, assemble PROVE DriverInv'
  <2>1. PICK k : k = pos
    OBVIOUS
  <2>2. /\ pc = "assemble" /\ pc' = "compile" /\ Assembled(k, asm_tmp, asm_tmp) /\ pos' = AfterThis(k)
        /\ UNCHANGED <<argv, i, options, counts, asm_tmp, linked>>
    BY <1>1, <2>1 DEF assemble
  <2>3. k \in DOMAIN infiles /\ infiles[k].kind = "c" /\ asm_tmp = infiles[k].src
    BY <1>1, <2>1, <2>2 DEF DriverInv, HandedOn
  <2>4. asm_tmp \in Contents /\ k \in Nat /\ \A j \in DOMAIN infiles : j \in Nat
    BY <1>1, <2>1, <2>3 DEF DriverInv, TypeOK
  <2>5. pos <= k /\ \A j \in DOMAIN infiles : ~(pos <= j /\ j < k)
    BY <2>1, <2>4
  <2>. QED  BY <1>1, <2>2, <2>3, <2>4, <2>5, AssembledStep
<1>2. ASSUME DriverInv, assemble_file PROVE DriverInv'
  <2>1. PICK k : k = Min(Todo("asm"))
    OBVIOUS
  <2>2. /\ pc = "asm" /\ pc' = "asm" /\ Todo("asm") # {}
        /\ Assembled(k, infiles[k].src, Junk) /\ pos' = AfterThis(k)
        /\ UNCHANGED <<argv, i, options, counts, asm_tmp, linked>>
    BY <1>2, <2>1 DEF assemble_file
  <2>3. /\ k \in DOMAIN infiles /\ pos <= k /\ infiles[k].kind = "asm"
        /\ \A j \in DOMAIN infiles : pos <= j /\ j < k => infiles[j].kind # "asm"
    BY <1>2, <2>1, <2>2, NextFile DEF DriverInv
  <2>4. Junk \in Contents
    BY <1>2, DriverAssumption DEF DriverInv, TypeOK, Contents, Junk, Absent
  <2>. QED  BY <1>2, <2>2, <2>3, <2>4, AssembledStep
<1>. QED  BY <1>1, <1>2

\* The linker is given every file of the list, each as it should be.
LEMMA Link == DriverInv /\ link => DriverInv'
<1>. SUFFICES ASSUME DriverInv, link PROVE DriverInv'
  OBVIOUS
<1>1. /\ pc = "link" /\ pc' = "cleanup"
      /\ UNCHANGED <<argv, i, options, infiles, counts, pos, asm_tmp, obj_tmps, output, failed>>
      /\ \/ /\ exst = 0 /\ exst' \in {0, 1}
            /\ linked' = [k \in DOMAIN infiles |-> Given(infiles[k])]
         \/ exst # 0 /\ UNCHANGED <<exst, linked>>
  BY DEF link
<1>2. /\ TypeOK /\ Checked /\ Listed /\ Ordered /\ Counted /\ Reported /\ LinkedRight
      /\ Progress /\ ObjectsRight
  BY DEF DriverInv
<1>3. /\ Mode' = Mode /\ TooManyFiles' = TooManyFiles /\ driver_flags' = driver_flags
      /\ File' = File /\ Contents' = Contents /\ Object' = Object
  BY <1>1, SameMode DEF options, File, Contents, Object
<1>4. ~TooManyFiles /\ "HELP" \notin driver_flags /\ Mode = "link"
  BY <1>1, <1>2 DEF Checked, Progress
<1>5. /\ Len(infiles) \in Nat /\ DOMAIN infiles = 1 .. Len(infiles)
      /\ \A j \in DOMAIN infiles : infiles[j] \in File
  BY <1>2 DEF TypeOK
<1>6. Listed' /\ Ordered' /\ Counted'
  BY <1>1, <1>2, ListKept
<1>7. Fresh' /\ Checked' /\ HandedOn' /\ ObjectsRight' /\ TempsRemoved' /\ Progress'
  BY <1>1, <1>3, <1>4 DEF Fresh, Checked, HandedOn, ObjectsRight, TempsRemoved, Progress
<1>8. CASE exst # 0 /\ UNCHANGED <<exst, linked>>
  <2>1. TypeOK'
    BY <1>1, <1>2, <1>3, <1>8 DEF TypeOK, options, counts
  <2>2. LinkedRight' /\ Reported' /\ LinkedAll'
    BY <1>1, <1>2, <1>8, LinkedKept DEF Reported, LinkedAll
  <2>. QED  BY <1>6, <1>7, <2>1, <2>2 DEF DriverInv
<1>9. CASE exst = 0 /\ exst' \in {0, 1} /\ linked' = [k \in DOMAIN infiles |-> Given(infiles[k])]
  <2>1. failed = {}
    BY <1>2, <1>9 DEF Reported
  <2>2. DOMAIN linked' = DOMAIN infiles /\ \A k \in DOMAIN infiles : linked'[k] = Given(infiles[k])
    BY <1>9
  <2>3. \A k \in DOMAIN infiles : /\ linked'[k].kind = infiles[k].kind
                                  /\ linked'[k].src = infiles[k].src /\ linked'[k].lib = infiles[k].lib
                                  /\ linked'[k].holds = IF infiles[k].tmp # 0 THEN obj_tmps[infiles[k].tmp]
                                                        ELSE infiles[k].src
    BY <2>2 DEF Given
  <2>4. \A k \in DOMAIN infiles : infiles[k].kind = "other"
    <3>1. \A k \in DOMAIN infiles : infiles[k].kind \notin {"c", "asm"}
      BY <1>1, <1>2, <1>4, <1>5, <2>1 DEF Progress, Through, Translated
    <3>. QED  BY <1>5, <3>1 DEF File, Kinds
  <2>5. TypeOK'
    <3>1. \A k \in DOMAIN infiles : Given(infiles[k]) \in Object
      <4>1. SUFFICES ASSUME NEW k \in DOMAIN infiles PROVE Given(infiles[k]) \in Object
        OBVIOUS
      <4>2. /\ infiles[k].kind \in Kinds /\ infiles[k].src \in 0 .. Len(argv) /\ infiles[k].lib \in Names
            /\ infiles[k].tmp \in 0 .. Len(obj_tmps)
        BY <1>5 DEF File
      <4>3. infiles[k].src \in Contents
        BY <1>2, <4>2, DriverAssumption DEF TypeOK, Contents, Absent
      <4>4. infiles[k].tmp # 0 => obj_tmps[infiles[k].tmp] \in Contents
        BY <1>2, <4>2 DEF TypeOK
      <4>. QED  BY <4>2, <4>3, <4>4 DEF Given, Object
    <3>2. linked' \in [1 .. Len(infiles) -> Object]
      BY <1>5, <1>9, <3>1
    <3>3. linked' \in Seq(Object)
      BY <1>5, <3>2, SeqDef
    <3>. QED  BY <1>1, <1>2, <1>3, <1>9, <3>3 DEF TypeOK, options, counts
  <2>6. LinkedRight'
    <3>1. ASSUME NEW j \in DOMAIN infiles, infiles[j].src # 0, argv[infiles[j].src].v # "asm"
          PROVE  linked'[j].holds = infiles[j].src
      <4>1. CASE infiles[j].tmp = 0
        BY <2>3, <4>1
      <4>2. CASE infiles[j].tmp # 0
        <5>1. argv[infiles[j].src].v = "c"
          BY <1>2, <3>1, <4>2 DEF Listed
        <5>. QED  BY <1>1, <1>2, <2>1, <2>3, <4>2, <5>1 DEF ObjectsRight
      <4>. QED  BY <4>1, <4>2
    <3>2. \A j, k \in DOMAIN infiles : j < k =>
            /\ linked'[j].src # 0 /\ linked'[k].src # 0 => linked'[j].src < linked'[k].src
            /\ linked'[k].lib \in StartUp => linked'[j].src = 0
            /\ linked'[j].lib \in Closing => linked'[k].src = 0
      BY <1>2, <2>3 DEF Ordered
    <3>. QED  BY <1>1, <2>2, <2>3, <2>4, <3>1, <3>2 DEF LinkedRight
  <2>7. Reported' /\ LinkedAll'
    BY <1>1, <2>1, <2>2, <2>3 DEF Reported, LinkedAll
  <2>. QED  BY <1>6, <1>7, <2>5, <2>6, <2>7 DEF DriverInv
<1>. QED  BY <1>1, <1>8, <1>9

\* The temporary files are deleted.
LEMMA Cleanup == DriverInv /\ cleanup => DriverInv'
<1>. SUFFICES ASSUME DriverInv, cleanup PROVE DriverInv'
  OBVIOUS
<1>1. /\ pc = "cleanup" /\ pc' = "done"
      /\ asm_tmp' = IF Mode = "link" /\ alt_asm_tmp THEN asm_tmp ELSE Absent
      /\ obj_tmps' = [k \in DOMAIN obj_tmps |-> Absent]
      /\ UNCHANGED <<argv, i, options, infiles, counts, pos, exst, output, failed, linked>>
  BY DEF cleanup
<1>2. /\ TypeOK /\ Checked /\ Listed /\ Ordered /\ Counted /\ Reported /\ LinkedRight
      /\ Progress /\ LinkedAll
  BY DEF DriverInv
<1>3. /\ Mode' = Mode /\ TooManyFiles' = TooManyFiles /\ driver_flags' = driver_flags
      /\ Translates' = Translates /\ alt_asm_tmp' = alt_asm_tmp
      /\ Contents' = Contents /\ Object' = Object
  BY <1>1, SameMode DEF options, Contents, Object
<1>4. /\ Len(obj_tmps) \in Nat /\ DOMAIN obj_tmps = 1 .. Len(obj_tmps) /\ Absent \in Contents
  BY <1>2, DriverAssumption DEF TypeOK, Contents, Absent
<1>5. obj_tmps' \in Seq(Contents) /\ Len(obj_tmps') = Len(obj_tmps)
  <2>1. obj_tmps' \in [1 .. Len(obj_tmps) -> Contents]
    BY <1>1, <1>4
  <2>. QED  BY <1>4, <2>1, SeqDef
<1>6. TypeOK'
  <2>1. File' = File
    BY <1>1, <1>5 DEF File
  <2>. QED  BY <1>1, <1>2, <1>3, <1>4, <1>5, <2>1 DEF TypeOK, options, counts
<1>7. Listed' /\ Ordered' /\ Counted' /\ LinkedRight' /\ Reported'
  BY <1>1, <1>2, ListKept, LinkedKept DEF Reported
<1>8. Fresh' /\ Checked' /\ HandedOn' /\ ObjectsRight'
  BY <1>1 DEF Fresh, Checked, HandedOn, ObjectsRight
<1>9. TempsRemoved'
  BY <1>1, <1>3 DEF TempsRemoved
<1>10. \A kinds, n : Through(kinds, n) => Through(kinds, n)'
  BY <1>1, <1>3 DEF Through, Translated
<1>11. Progress' /\ LinkedAll'
  BY <1>1, <1>2, <1>3, <1>10 DEF Progress, LinkedAll, Finished
<1>. QED  BY <1>6, <1>7, <1>8, <1>9, <1>11 DEF DriverInv

\* A child that is killed ends the driver.
LEMMA Killed == DriverInv /\ killed => DriverInv'
<1>. SUFFICES ASSUME DriverInv, killed PROVE DriverInv'
  OBVIOUS
<1>1. /\ pc' = "exited" /\ exst' = 1 /\ obj_tmps' \in {obj_tmps, Append(obj_tmps, Junk)}
      /\ UNCHANGED <<argv, i, options, infiles, counts, pos, asm_tmp, output, failed, linked>>
  BY DEF killed, Exit
<1>2. /\ TypeOK /\ Listed /\ Ordered /\ Counted /\ LinkedRight
  BY DEF DriverInv
<1>3. /\ Contents' = Contents /\ Object' = Object
  BY <1>1 DEF Contents, Object
<1>4. obj_tmps \in Seq(Contents) /\ Junk \in Contents /\ Len(obj_tmps) \in Nat
  BY <1>2, DriverAssumption DEF TypeOK, Contents, Junk, Absent
<1>5. obj_tmps' \in Seq(Contents) /\ Len(obj_tmps') \in {Len(obj_tmps), Len(obj_tmps) + 1}
  BY <1>1, <1>4, Appended
<1>6. infiles \in Seq(File')
  <2>1. \A x \in 0 .. Len(obj_tmps) : x \in 0 .. Len(obj_tmps')
    BY <1>4, <1>5
  <2>2. \A f \in File : f \in File'
    BY <1>1, <2>1 DEF File
  <2>. QED  BY <1>2, <2>2, SeqMonotonic DEF TypeOK
<1>7. TypeOK'
  BY <1>1, <1>2, <1>3, <1>5, <1>6 DEF TypeOK, options, counts
<1>8. Listed' /\ Ordered' /\ Counted' /\ LinkedRight'
  BY <1>1, <1>2, ListKept, LinkedKept
<1>. QED  BY <1>1, <1>7, <1>8, GivenUp DEF DriverInv

-----------------------------------------------------------------------------
\* Nothing changes the invariant when nothing happens.
LEMMA Stutter == DriverInv /\ UNCHANGED vars => DriverInv'
<1>. SUFFICES ASSUME DriverInv, UNCHANGED vars PROVE DriverInv'
  OBVIOUS
<1>1. /\ UNCHANGED <<argv, i, pc, options, infiles, counts, pos, exst, asm_tmp, obj_tmps, output, failed, linked>>
      /\ driver_flags' = driver_flags /\ alt_asm_tmp' = alt_asm_tmp
  BY DEF vars, options, counts
<1>2. /\ Mode' = Mode /\ TooManyFiles' = TooManyFiles /\ Translates' = Translates
      /\ File' = File /\ Contents' = Contents /\ Object' = Object
  BY <1>1, SameMode DEF File, Contents, Object
<1>3. TypeOK'
  BY <1>1, <1>2 DEF DriverInv, TypeOK, options, counts
<1>4. Listed' /\ Ordered' /\ Counted' /\ LinkedRight' /\ Reported'
  BY <1>1, ListKept, LinkedKept DEF DriverInv, Reported
<1>5. Fresh' /\ Checked' /\ HandedOn' /\ ObjectsRight' /\ TempsRemoved'
  BY <1>1, <1>2 DEF DriverInv, Fresh, Checked, HandedOn, ObjectsRight, TempsRemoved
<1>6. \A kinds, n : Through(kinds, n) => Through(kinds, n)'
  BY <1>1, <1>2 DEF Through, Translated
<1>7. Progress' /\ LinkedAll'
  BY <1>1, <1>2, <1>6 DEF DriverInv, Progress, LinkedAll, Finished, Worked
<1>. QED  BY <1>3, <1>4, <1>5, <1>7 DEF DriverInv

\* The invariant is inductive.
LEMMA DriverStep == DriverInv /\ [Next]_vars => DriverInv'
  BY ParseFile, ParseOption, EndOfLine, SelectTarget, Start, Compile, EndOfLoops, Assemble, Link,
     Cleanup, Killed, Stutter DEF Next

\* Every reachable state of the driver satisfies the invariant.
LEMMA DriverAlways == Spec => []DriverInv
  BY DriverStart, DriverStep, PTL DEF Spec

\* The state of the driver is always of its type: in particular the parser never reads
\* past the end of the command line, and a file of the list names an object that exists.
THEOREM Typed == Spec => []TypeOK
<1>1. DriverInv => TypeOK
  BY DEF DriverInv
<1>. QED  BY <1>1, DriverAlways, PTL

\* On every path through main() that ends normally the temporary files are gone.
THEOREM NoTempsLeft == Spec => []TempsRemoved
<1>1. DriverInv => TempsRemoved
  BY DEF DriverInv
<1>. QED  BY <1>1, DriverAlways, PTL

\* A failure of any child is in the exit status, whatever main() does after it.
THEOREM NoFailureForgotten == Spec => []FailuresReported
<1>1. DriverInv => FailuresReported
  BY DEF DriverInv, Reported, FailuresReported
<1>. QED  BY <1>1, DriverAlways, PTL

\* An input to translate is still in the list under its kind, when nothing is linked.
LEMMA StillListed ==
  ASSUME DriverInv, Mode # "link", NEW s \in ToTranslate
  PROVE  \E k \in DOMAIN infiles : infiles[k].src = s /\ infiles[k].kind \in Translates
<1>1. PICK k \in DOMAIN infiles : /\ infiles[k].src = s /\ infiles[k].src # 0
                                  /\ argv[infiles[k].src].v \in Translates
  BY DEF ToTranslate, Inputs
<1>2. infiles[k].tmp = 0 /\ infiles[k].kind = argv[infiles[k].src].v
  BY <1>1 DEF DriverInv, Listed
<1>. QED  BY <1>1, <1>2

\* An input whose own commands succeeded has its output, however many others failed.
THEOREM NoFailureSpreads == Spec => []FailuresIsolated
<1>1. DriverInv => FailuresIsolated
  <2>1. SUFFICES ASSUME DriverInv, pc = "cleanup", Mode # "link", NEW s \in ToTranslate \ failed
                 PROVE  output[s] = s
    BY DEF FailuresIsolated
  <2>2. PICK k \in DOMAIN infiles : infiles[k].src = s /\ infiles[k].kind \in Translates
    BY <2>1, StillListed
  <2>3. k < Len(infiles) + 1
    BY <2>1 DEF DriverInv, TypeOK
  <2>4. Translated(k)
    BY <2>1, <2>2, <2>3 DEF DriverInv, Progress, Finished, Through
  <2>. QED  BY <2>1, <2>2, <2>4 DEF Translated
<1>. QED  BY <1>1, DriverAlways, PTL

\* Status 0 means that every input has been translated from its own code, or that the
\* linker had all of them.
THEOREM SuccessMeansDone == Spec => []SuccessMeansOutput
<1>1. DriverInv => SuccessMeansOutput
  <2>. SUFFICES ASSUME DriverInv, Worked PROVE SuccessMeansOutput
    BY DEF SuccessMeansOutput
  <2>1. exst = 0 /\ failed = {} /\ Finished
    BY DEF Worked, Finished, DriverInv, Reported
  <2>2. CASE Mode = "link"
    <3>1. DOMAIN linked = DOMAIN infiles /\ \A k \in DOMAIN infiles : linked[k].src = infiles[k].src
      BY <2>1, <2>2 DEF DriverInv, LinkedAll
    <3>2. {linked[k].src : k \in DOMAIN linked} \ {0} = {infiles[k].src : k \in Inputs}
      BY <3>1 DEF Inputs
    <3>. QED  BY <2>2, <3>2 DEF SuccessMeansOutput
  <2>3. CASE Mode # "link"
    <3>1. ASSUME NEW s \in ToTranslate PROVE output[s] = s
      <4>1. PICK k \in DOMAIN infiles : infiles[k].src = s /\ infiles[k].kind \in Translates
        BY <2>3, <3>1, StillListed
      <4>2. k < Len(infiles) + 1
        BY DEF DriverInv, TypeOK
      <4>3. Translated(k)
        BY <2>1, <2>3, <4>1, <4>2 DEF DriverInv, Progress, Through
      <4>. QED  BY <2>1, <4>1, <4>3 DEF Translated
    <3>. QED  BY <2>3, <3>1 DEF SuccessMeansOutput
  <2>. QED  BY <2>2, <2>3
<1>. QED  BY <1>1, DriverAlways, PTL

\* The linker gets no source file; of each C and object file its own code, in the order of the
\* command line and between the start-up files and the libraries.  Of an assembly file it is
\* given, at the right place, a temporary that does not hold its object (luxdvr.c:938).
THEOREM LinkedInOrder == Spec => []LinkedRight
<1>1. DriverInv => LinkedRight
  BY DEF DriverInv
<1>. QED  BY <1>1, DriverAlways, PTL
=============================================================================
