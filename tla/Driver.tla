------------------------------- MODULE Driver -------------------------------
(***************************************************************************)
(* The compilation driver luxdvr.c: it parses the command line, runs the   *)
(* compiler, the assembler and the linker as child processes and hands     *)
(* their results on through temporary files.                               *)
(*                                                                         *)
(* The command line is a sequence of words chosen in the initial state.  A *)
(* word has an option o and a value v written together with it ("" if it   *)
(* is the next word, or if the option takes none).  Options that are only  *)
(* handed on to a tool are "pass" (with an argument) and "flag".           *)
(*                                                                         *)
(* A child process may succeed, fail, or be killed by a signal.  What a    *)
(* file holds is the number of the input whose code it is, or Junk.        *)
(***************************************************************************)
EXTENDS Integers, Sequences, FiniteSetsExt

CONSTANT CommandLines   \* the command lines, without the program's name

Options == {"file", "analyze", "alt-asm-tmp", "c", "E", "S", "h", "static", "use-musl",
            "use-glibc", "m", "o", "pass", "flag", "unknown"}
Machines == {"vm32", "vm64", "x86", "x64", "mips", "arm"}
Kinds == {"c", "asm", "other"}

Words == [o : Options, v : Kinds \cup Machines \cup {"", "path"}]

ASSUME DriverAssumption ==
  /\ CommandLines \subseteq Seq(Words)
  /\ \A s \in CommandLines : \A k \in DOMAIN s : s[k].o = "file" => s[k].v \in Kinds

\* The files of the library that a link may name; "" is none of them.
StartUp == {"crt0.o", "crt1.o", "crti.o"}
Closing == {"libc.o", "libc.a", "libc.so", "libc.so.6", "crtn.o"}
Names == StartUp \cup Closing \cup {"", "liblux.o", "luxmemcpy.o", "libgcc.a", "libgcc_eh.a", "libc_nonshared.a"}

Absent == -1    \* contents of a file that does not exist
Junk == 0       \* of an empty file, or one that a failed command left behind

VARIABLES
  argv, i,        \* the command line and the word the parser is at
  pc,             \* where main() is
  driver_flags,   \* DVR_* flags without the target
  target,         \* the target flag
  got_arch, outpath, alt_asm_tmp,  \* whether these are set
  infiles,        \* the list of files
  ncfls, nasmfls, notherfls,
  pos,            \* the file a loop over infiles is at
  exst,           \* the exit status
  asm_tmp,        \* what the temporary assembly file holds
  obj_tmps,       \* what each temporary object file holds
  output,         \* what the output file of each input holds
  failed,         \* inputs with a command that failed
  linked          \* what the linker was given

vars == <<argv, i, pc, driver_flags, target, got_arch, outpath, alt_asm_tmp, infiles, ncfls,
          nasmfls, notherfls, pos, exst, asm_tmp, obj_tmps, output, failed, linked>>
options == <<driver_flags, target, got_arch, outpath, alt_asm_tmp>>
counts == <<ncfls, nasmfls, notherfls>>
files == <<asm_tmp, obj_tmps, output, failed, linked>>

Contents == Absent .. Len(argv)
File == [kind : Kinds, src : 0 .. Len(argv), tmp : 0 .. Len(obj_tmps), lib : Names]
Object == [kind : Kinds, src : 0 .. Len(argv), lib : Names, holds : Contents]

TypeOK ==
  /\ argv \in CommandLines /\ i \in 1 .. Len(argv) + 1
  /\ pc \in {"parse", "check", "target", "start", "compile", "assemble", "asm", "link",
             "cleanup", "done", "exited"}
  /\ driver_flags \subseteq {"HELP", "PREP_ONLY", "COMP_ONLY", "NOLINK", "ANALYZE_ONLY",
                             "GLIBC", "MUSL", "STATIC"}
  /\ target \in Machines /\ {got_arch, outpath, alt_asm_tmp} \subseteq BOOLEAN
  /\ infiles \in Seq(File) /\ pos \in 1 .. Len(infiles) + 1
  /\ ncfls \in Nat /\ nasmfls \in Nat /\ notherfls \in Nat
  /\ exst \in {0, 1}
  /\ asm_tmp \in Contents /\ obj_tmps \in Seq(Contents)
  /\ output \in [DOMAIN argv -> Contents] /\ failed \subseteq DOMAIN argv
  /\ linked \in Seq(Object)

-----------------------------------------------------------------------------
\* exst has no value before the command line has been checked; nothing reads it
\* there but the `goto done' of check_outpath.
Init ==
  /\ argv \in CommandLines /\ i = 1 /\ pc = "parse"
  /\ driver_flags = {} /\ target \in {"x64", "x86"}
  /\ got_arch = FALSE /\ outpath = FALSE /\ alt_asm_tmp = FALSE
  /\ infiles = <<>> /\ ncfls = 0 /\ nasmfls = 0 /\ notherfls = 0
  /\ pos = 1 /\ exst \in {0, 1}
  /\ asm_tmp = Absent /\ obj_tmps = <<>> /\ output = [k \in DOMAIN argv |-> Absent]
  /\ failed = {} /\ linked = <<>>

Exit == pc' = "exited" /\ exst' = 1

word == argv[i]
TakesArgument == {"alt-asm-tmp", "m", "o", "pass"}
\* A second -m is skipped before its argument is looked at.
Skipped == word.o = "m" /\ got_arch
NeedsNext == word.o \in TakesArgument /\ word.v = "" /\ ~Skipped

\* Mutant: the end of the command line passes for an argument.
HasArgument_mut == NeedsNext => i <= Len(argv)

HasArgument == NeedsNext => i < Len(argv)

new_file(kind, src, lib) == [kind |-> kind, src |-> src, tmp |-> 0, lib |-> lib]

\* Mutant: the new file is put in front of the list.
insert_end_mut(flist, newf) == <<newf>> \o flist

insert_end(flist, newf) == Append(flist, newf)

parse_file ==
  /\ pc = "parse" /\ i <= Len(argv) /\ word.o = "file"
  /\ infiles' = insert_end(infiles, new_file(word.v, i, ""))
  /\ ncfls' = ncfls + (IF word.v = "c" THEN 1 ELSE 0)
  /\ nasmfls' = nasmfls + (IF word.v = "asm" THEN 1 ELSE 0)
  /\ notherfls' = notherfls + (IF word.v = "other" THEN 1 ELSE 0)
  /\ i' = i + 1
  /\ UNCHANGED <<argv, pc, options, pos, exst, files>>

\* The flags an option sets and clears.
SetBy(o) == CASE o = "analyze" -> {"ANALYZE_ONLY"} [] o = "c" -> {"NOLINK"}
              [] o = "E" -> {"PREP_ONLY"} [] o = "S" -> {"COMP_ONLY"} [] o = "h" -> {"HELP"}
              [] o = "static" -> {"STATIC"} [] o = "use-musl" -> {"MUSL"}
              [] o = "use-glibc" -> {"GLIBC"} [] OTHER -> {}
ClearedBy(o) == CASE o = "use-musl" -> {"GLIBC"} [] o = "use-glibc" -> {"MUSL"} [] OTHER -> {}

\* An option with its argument.  Of "-m vm32" the driver compares "-m", not "vm32",
\* with the names of the machines: argv[i-1].
parse_option ==
  /\ pc = "parse" /\ i <= Len(argv) /\ word.o \notin {"file", "unknown"}
  /\ HasArgument
  /\ driver_flags' = (driver_flags \ ClearedBy(word.o)) \cup SetBy(word.o)
  /\ target' = IF word.o = "m" /\ ~got_arch /\ word.v \in Machines THEN word.v ELSE target
  /\ got_arch' = (got_arch \/ word.o = "m")
  /\ outpath' = (outpath \/ word.o = "o")
  /\ alt_asm_tmp' = (alt_asm_tmp \/ word.o = "alt-asm-tmp")
  /\ i' = IF NeedsNext THEN i + 2 ELSE i + 1
  /\ UNCHANGED <<argv, pc, infiles, counts, pos, exst, files>>

\* unknown_opt() and missing_arg()
bad_option ==
  /\ pc = "parse" /\ i <= Len(argv)
  /\ word.o = "unknown" \/ ~HasArgument
  /\ Exit
  /\ UNCHANGED <<argv, i, options, infiles, counts, pos, files>>

\* The end of the command line.  If it is empty, the driver says how it is used.
end_parse ==
  /\ pc = "parse" /\ i = Len(argv) + 1
  /\ \/ argv = <<>> /\ pc' = "exited" /\ exst' = 0
     \/ argv # <<>> /\ pc' = "check" /\ UNCHANGED exst
  /\ UNCHANGED <<argv, i, options, infiles, counts, pos, files>>

Single == {"PREP_ONLY", "COMP_ONLY", "NOLINK"}
\* Mutant: several C files may share the output file.
TooManyFiles_mut == outpath /\ Single \cap driver_flags # {} /\ nasmfls > 1

\* -o with several files to translate.
TooManyFiles ==
  /\ outpath /\ Single \cap driver_flags # {}
  /\ IF nasmfls # 0 THEN nasmfls > 1 \/ ncfls # 0 ELSE ncfls > 1

\* The checks before anything is done.  After err_1 the exit status is whatever
\* the uninitialized variable holds.
check_options ==
  /\ pc = "check"
  /\ \/ /\ TooManyFiles
        /\ pc' = "done" /\ UNCHANGED exst
     \/ /\ ~TooManyFiles
        /\ LET none == ncfls = 0 /\ nasmfls = 0 /\ notherfls = 0
           IN  /\ pc' = IF "HELP" \in driver_flags \/ none THEN "done" ELSE "target"
               /\ exst' = IF "HELP" \notin driver_flags /\ none THEN 1 ELSE 0
  /\ UNCHANGED <<argv, i, options, infiles, counts, pos, files>>

-----------------------------------------------------------------------------
\* The files of the C library and the run-time system that are linked with the
\* user's, before and after them.
libc == IF "GLIBC" \in driver_flags THEN "glibc" ELSE IF "MUSL" \in driver_flags THEN "musl" ELSE "lux"
static == "STATIC" \in driver_flags

Liblux == CASE target \in {"mips", "arm"} -> <<"liblux.o", "luxmemcpy.o">>
            [] target = "x86" -> <<"liblux.o">> [] OTHER -> <<>>
Before ==
  IF target \in {"vm32", "vm64"} THEN <<"crt0.o">>
  ELSE Liblux \o
    CASE libc = "lux"  -> <<"crt0.o">>
      [] libc = "musl" -> <<"crt1.o", "crti.o">>
      [] libc = "glibc" -> IF static THEN <<>>
                           ELSE IF target \in {"mips", "arm"} THEN <<"crt1.o", "crti.o">>
                           ELSE <<"crti.o", "crt1.o">>
After ==
  IF target \in {"vm32", "vm64"} THEN <<"libc.o">>
  ELSE CASE libc = "lux" -> IF static THEN <<"libc.a">> ELSE <<"libc.so">>
         [] libc = "musl" ->
              IF ~static THEN <<"libc.so">>
              ELSE IF target = "arm" THEN <<"libc.a", "libgcc.a", "libgcc_eh.a", "libc.a", "crtn.o">>
              ELSE <<"libc.a", "libgcc.a", "crtn.o">>
         [] libc = "glibc" ->
              IF static THEN <<>>
              ELSE IF target \in {"mips", "arm"} THEN <<"libc.so.6", "crtn.o", "libc_nonshared.a">>
              ELSE <<"crtn.o", "libc.so.6", "libc_nonshared.a">>
Library(names) == [k \in DOMAIN names |-> new_file("other", 0, names[k])]

\* The .conf file and all the files it names are found, or the driver gives up.
select_target ==
  /\ pc = "target"
  /\ \/ /\ infiles' = Library(Before) \o infiles \o Library(After)
        /\ notherfls' = notherfls + Len(Before) + Len(After)
        /\ pc' = "start" /\ UNCHANGED exst
     \/ Exit /\ UNCHANGED <<infiles, notherfls>>
  /\ UNCHANGED <<argv, i, options, ncfls, nasmfls, pos, files>>

Mode ==
  IF {"ANALYZE_ONLY", "PREP_ONLY", "COMP_ONLY"} \cap driver_flags # {} THEN "compile_only"
  ELSE IF "NOLINK" \in driver_flags THEN "nolink" ELSE "link"
Translates == IF Mode = "compile_only" THEN {"c"} ELSE {"c", "asm"}
\* The output goes to the file of -o, and one input is all that is translated.
OneOutput ==
  CASE Mode = "compile_only" -> outpath /\ "ANALYZE_ONLY" \notin driver_flags
    [] Mode = "nolink" -> outpath [] OTHER -> FALSE

\* mkstemps() of the assembly file, unless there is nothing to do.
start ==
  /\ pc = "start"
  /\ LET idle == \/ Mode = "compile_only" /\ ncfls = 0
                 \/ Mode = "nolink" /\ ncfls = 0 /\ nasmfls = 0
     IN  /\ pc' = IF idle THEN "done" ELSE "compile"
         /\ asm_tmp' = IF /\ ~idle /\ ncfls # 0 /\ Mode # "compile_only"
                          /\ Mode = "link" => ~alt_asm_tmp
                       THEN Junk ELSE asm_tmp
  /\ UNCHANGED <<argv, i, options, infiles, counts, pos, exst, obj_tmps, output, failed, linked>>

-----------------------------------------------------------------------------
\* The loops over infiles.
Todo(kind) == {k \in pos .. Len(infiles) : infiles[k].kind = kind}
AfterThis(k) == IF OneOutput THEN Len(infiles) + 1 ELSE k + 1
Fails(src) == exst' = 1 /\ failed' = failed \cup {src}
Passes == UNCHANGED <<exst, failed>>

\* exec_cmd(): a child that did not exit ends the driver at once.
killed ==
  /\ pc \in {"compile", "assemble", "asm", "link"}
  /\ pc \in {"compile", "asm"} => Todo(IF pc = "compile" THEN "c" ELSE "asm") # {}
  /\ pc = "link" => exst = 0
  /\ Exit
  /\ obj_tmps' = IF Mode = "link" /\ pc \in {"assemble", "asm"} THEN Append(obj_tmps, Junk) ELSE obj_tmps
  /\ UNCHANGED <<argv, i, options, infiles, counts, pos, asm_tmp, output, failed, linked>>

\* Mutant: a file that does not compile is assembled nevertheless.
compile_mut ==
  /\ pc = "compile" /\ Todo("c") # {}
  /\ LET k == Min(Todo("c"))  src == infiles[k].src
     IN  \/ /\ Passes
            /\ IF Mode = "compile_only"
                 THEN /\ output' = [output EXCEPT ![src] = src] /\ pos' = AfterThis(k)
                      /\ UNCHANGED <<pc, asm_tmp>>
                 ELSE asm_tmp' = src /\ pos' = k /\ pc' = "assemble" /\ UNCHANGED output
         \/ /\ exst' = 1 /\ UNCHANGED <<failed, asm_tmp, output>>
            /\ pos' = k /\ pc' = IF Mode = "compile_only" THEN pc ELSE "assemble"
  /\ UNCHANGED <<argv, i, options, infiles, counts, obj_tmps, linked>>

\* The compiler on the next C file.
compile ==
  /\ pc = "compile" /\ Todo("c") # {}
  /\ LET k == Min(Todo("c"))  src == infiles[k].src
     IN  \/ /\ Passes
            /\ IF Mode = "compile_only"
                 THEN /\ output' = [output EXCEPT ![src] = src] /\ pos' = AfterThis(k)
                      /\ UNCHANGED <<pc, asm_tmp>>
                 ELSE asm_tmp' = src /\ pos' = k /\ pc' = "assemble" /\ UNCHANGED output
         \/ /\ Fails(src) /\ pos' = AfterThis(k)
            /\ asm_tmp' = IF Mode = "compile_only" THEN asm_tmp ELSE Junk
            /\ UNCHANGED <<pc, output>>
  /\ UNCHANGED <<argv, i, options, infiles, counts, obj_tmps, linked>>

\* Mutant: a failure of the assembler is not noted.
Assembled_mut(k, holds, written) ==
  LET src == infiles[k].src
  IN  \/ /\ Passes
         /\ \/ Mode = "nolink" /\ output' = [output EXCEPT ![src] = holds] /\ UNCHANGED <<obj_tmps, infiles>>
            \/ Mode = "link" /\ obj_tmps' = Append(obj_tmps, written) /\ UNCHANGED output
               /\ infiles' = [infiles EXCEPT ![k].kind = "other", ![k].tmp = Len(obj_tmps) + 1]
      \/ /\ failed' = failed \cup {src} /\ UNCHANGED <<exst, output>>
         /\ IF Mode = "nolink" THEN UNCHANGED <<obj_tmps, infiles>>
            ELSE /\ obj_tmps' = Append(obj_tmps, Junk)
                 /\ infiles' = [infiles EXCEPT ![k].kind = "other", ![k].tmp = Len(obj_tmps) + 1]

\* The assembler on code `holds' for file k of the list, in the link mode with a new
\* temporary object, which then holds `written' and takes the file's place.
Assembled(k, holds, written) ==
  LET src == infiles[k].src
  IN  \/ /\ Passes
         /\ \/ Mode = "nolink" /\ output' = [output EXCEPT ![src] = holds] /\ UNCHANGED <<obj_tmps, infiles>>
            \/ Mode = "link" /\ obj_tmps' = Append(obj_tmps, written) /\ UNCHANGED output
               /\ infiles' = [infiles EXCEPT ![k].kind = "other", ![k].tmp = Len(obj_tmps) + 1]
      \/ /\ Fails(src) /\ UNCHANGED output
         /\ IF Mode = "nolink" THEN UNCHANGED <<obj_tmps, infiles>>
            ELSE /\ obj_tmps' = Append(obj_tmps, Junk)
                 /\ infiles' = [infiles EXCEPT ![k].kind = "other", ![k].tmp = Len(obj_tmps) + 1]

\* The assembler on the code of the C file just compiled.
assemble ==
  /\ pc = "assemble" /\ pc' = "compile"
  /\ Assembled(pos, asm_tmp, asm_tmp) /\ pos' = AfterThis(pos)
  /\ UNCHANGED <<argv, i, options, counts, asm_tmp, linked>>

end_compile ==
  /\ pc = "compile" /\ Todo("c") = {}
  /\ \/ /\ Mode = "compile_only" \/ (OneOutput /\ ncfls # 0)
        /\ pc' = "cleanup" /\ UNCHANGED pos
     \/ /\ Mode # "compile_only" /\ ~(OneOutput /\ ncfls # 0)
        /\ pc' = "asm" /\ pos' = 1
  /\ UNCHANGED <<argv, i, options, infiles, counts, exst, files>>

\* The assembler on the next assembly file.  In the link mode it is told to write
\* to a file whose name is the array obj_tmps read as a string: the temporary
\* object stays as mkstemps() made it.
assemble_file ==
  /\ pc = "asm" /\ Todo("asm") # {}
  /\ LET k == Min(Todo("asm"))
     IN  Assembled(k, infiles[k].src, Junk) /\ pos' = AfterThis(k)
  /\ UNCHANGED <<argv, i, pc, options, counts, asm_tmp, linked>>

end_asm ==
  /\ pc = "asm" /\ Todo("asm") = {}
  /\ pc' = IF Mode = "link" THEN "link" ELSE "cleanup"
  /\ UNCHANGED <<argv, i, options, infiles, counts, pos, exst, files>>

\* What the linker finds in a file of the list.
Given(f) ==
  [kind |-> f.kind, src |-> f.src, lib |-> f.lib,
   holds |-> IF f.tmp # 0 THEN obj_tmps[f.tmp] ELSE f.src]

link ==
  /\ pc = "link" /\ pc' = "cleanup"
  /\ \/ /\ exst = 0
        /\ linked' = [k \in DOMAIN infiles |-> Given(infiles[k])]
        /\ exst' \in {0, 1}
     \/ exst # 0 /\ UNCHANGED <<exst, linked>>
  /\ UNCHANGED <<argv, i, options, infiles, counts, pos, asm_tmp, obj_tmps, output, failed>>

\* Mutant: the temporary objects are only deleted after a successful link.
cleanup_mut ==
  /\ pc = "cleanup" /\ pc' = "done"
  /\ asm_tmp' = Absent
  /\ obj_tmps' = IF exst = 0 THEN [k \in DOMAIN obj_tmps |-> Absent] ELSE obj_tmps
  /\ UNCHANGED <<argv, i, options, infiles, counts, pos, exst, output, failed, linked>>

\* The file of -alt-asm-tmp is not deleted.
cleanup ==
  /\ pc = "cleanup" /\ pc' = "done"
  /\ asm_tmp' = IF Mode = "link" /\ alt_asm_tmp THEN asm_tmp ELSE Absent
  /\ obj_tmps' = [k \in DOMAIN obj_tmps |-> Absent]
  /\ UNCHANGED <<argv, i, options, infiles, counts, pos, exst, output, failed, linked>>

Next ==
  \/ parse_file \/ parse_option \/ bad_option \/ end_parse \/ check_options \/ select_target
  \/ start \/ compile \/ assemble \/ end_compile \/ assemble_file \/ end_asm \/ link
  \/ cleanup \/ killed

Spec == Init /\ [][Next]_vars

-----------------------------------------------------------------------------
Inputs == {k \in DOMAIN infiles : infiles[k].src # 0}
\* The files named on the command line that this mode translates, as they were.
ToTranslate == {infiles[k].src : k \in {k \in Inputs : argv[infiles[k].src].v \in Translates}}
Worked == pc = "done" /\ ~TooManyFiles /\ "HELP" \notin driver_flags /\ exst = 0

\* When main() returns, however many commands failed, no temporary file is left.
TempsRemoved ==
  pc = "done" =>
    /\ asm_tmp = Absent \/ (Mode = "link" /\ alt_asm_tmp)
    /\ \A k \in DOMAIN obj_tmps : obj_tmps[k] = Absent

\* A failed command is never forgotten, whatever is done after it.
FailuresReported == pc \in {"done", "exited"} /\ failed # {} => exst = 1

\* Status 0 means that the work has been done: every input that the mode translates
\* has its own code in its output file, or the linker was given all inputs.  The
\* temporary assembly file, shared by all inputs, never passes on another one's code.
SuccessMeansOutput ==
  Worked => CASE Mode = "link" -> {linked[k].src : k \in DOMAIN linked} \ {0} = {infiles[k].src : k \in Inputs}
              [] OTHER -> \A k \in ToTranslate : output[k] = k

\* One input's failure does not harm the others: each input whose own commands
\* succeeded has its output.
FailuresIsolated ==
  pc = "cleanup" /\ Mode # "link" => \A k \in ToTranslate \ failed : output[k] = k

\* What the linker is given: never a source file; C files by their objects, each with
\* its own code, in the order of the command line, after the start-up files and before
\* the libraries.  Of an assembly file only the place is right: luxdvr.c:938 has its object
\* written elsewhere.
LinkedRight ==
  /\ \A j \in DOMAIN linked : linked[j].kind = "other"
  /\ \A j \in DOMAIN linked : linked[j].src # 0 /\ argv[linked[j].src].v # "asm" =>
                                linked[j].holds = linked[j].src
  /\ \A j, k \in DOMAIN linked : j < k =>
       /\ linked[j].src # 0 /\ linked[k].src # 0 => linked[j].src < linked[k].src
       /\ linked[k].lib \in StartUp => linked[j].src = 0
       /\ linked[j].lib \in Closing => linked[k].src = 0

-----------------------------------------------------------------------------
\* Why these hold: an inductive invariant, in parts.

\* Nothing has been run yet.
Fresh ==
  pc \in {"parse", "check", "target", "start"} =>
    /\ pos = 1 /\ asm_tmp = Absent /\ obj_tmps = <<>> /\ failed = {} /\ linked = <<>>
    /\ pc # "start" => \A k \in DOMAIN infiles : infiles[k].src # 0

\* Only a line that passed the checks gets beyond them.
Checked ==
  pc \in {"target", "start", "compile", "assemble", "asm", "link", "cleanup"} =>
    ~TooManyFiles /\ "HELP" \notin driver_flags

\* A file of the list is one of the line's, as it was or replaced by its object, or
\* one of the library's.
Listed ==
  \A k \in DOMAIN infiles :
    LET f == infiles[k]
    IN  /\ f.src = 0 => f.kind = "other" /\ f.tmp = 0
        /\ f.src # 0 => /\ f.src < i /\ argv[f.src].o = "file" /\ f.lib = ""
                        /\ f.tmp = 0 => f.kind = argv[f.src].v
        /\ f.tmp # 0 => Mode = "link" /\ f.kind = "other" /\ argv[f.src].v \in {"c", "asm"}

\* The list has the order of the command line, between the files of the library.
Ordered ==
  \A j, k \in DOMAIN infiles : j < k =>
    /\ infiles[j].src # 0 /\ infiles[k].src # 0 => infiles[j].src < infiles[k].src
    /\ infiles[k].lib \in StartUp => infiles[j].src = 0
    /\ infiles[j].lib \in Closing => infiles[k].src = 0

\* The counts say when there is no file of a kind, or only one.
AtMost(kind, n) ==
  \A j, k \in DOMAIN infiles :
    infiles[j].kind = kind /\ infiles[k].kind = kind => n # 0 /\ (n = 1 => j = k)
Counted == AtMost("c", ncfls) /\ AtMost("asm", nasmfls)

\* A file that is still in the list has been through the tools: its code is in its output,
\* unless one of them failed.  (In the link mode its object has taken its place.)
Translated(k) ==
  LET src == infiles[k].src
  IN  src \in failed \/ (Mode # "link" /\ output[src] = src)
Through(kinds, n) == \A k \in DOMAIN infiles : k < n /\ infiles[k].kind \in kinds => Translated(k)

\* Between the two tools the temporary file holds the code of the file at hand.
HandedOn ==
  pc = "assemble" => /\ Mode # "compile_only" /\ pos \in DOMAIN infiles
                     /\ infiles[pos].kind = "c" /\ asm_tmp = infiles[pos].src

\* How far the loops are.
Finished == pc = "cleanup" \/ Worked
Progress ==
  /\ pc \in {"compile", "assemble"} => Through({"c"}, pos)
  /\ pc = "asm" => /\ Mode # "compile_only" /\ Through({"asm"}, pos)
                   /\ Through({"c"}, Len(infiles) + 1)
  /\ pc = "link" => Mode = "link" /\ Through({"c", "asm"}, Len(infiles) + 1)
  /\ Finished /\ Mode # "link" => Through(Translates, Len(infiles) + 1)

\* The objects of C files hold their code until they are deleted.
ObjectsRight ==
  pc \in {"compile", "assemble", "asm", "link"} =>
    \A k \in DOMAIN infiles :
      LET f == infiles[k]
      IN  f.tmp # 0 /\ argv[f.src].v = "c" /\ f.src \notin failed => obj_tmps[f.tmp] = f.src

\* A successful link had every file of the list.
LinkedAll ==
  Finished /\ Mode = "link" /\ exst = 0 =>
    DOMAIN linked = DOMAIN infiles /\ \A k \in DOMAIN infiles : linked[k].src = infiles[k].src

\* The exit status and the temporary files, whatever main() is doing.
Reported == failed # {} => exst = 1

DriverInv ==
  /\ TypeOK /\ Fresh /\ Checked /\ Listed /\ Ordered /\ Counted /\ HandedOn /\ Progress
  /\ ObjectsRight /\ LinkedAll /\ Reported /\ LinkedRight /\ TempsRemoved
=============================================================================
