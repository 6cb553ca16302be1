----------------------------- MODULE MCLibrary ------------------------------
(***************************************************************************)
(* Small parts that do not meet each other, each on an instance of its     *)
(* own: which one a behaviour is about is chosen at the start.             *)
(***************************************************************************)
EXTENDS Integers, Sequences, FiniteSets, SequencesExt, TLC

VARIABLES
  part, LastHost, LastHostAddr, LastUsed, bad_addr, SrvRecords, job, calls, cache, merged, disk,
  sources, stored, now, opens, proc, changes, where, pos, chOffset, text, commands, server,
  pdiff_merge, final, claimed, partial, ed, eds, index, chain, merge, staged, full, runs, kind,
  from, AlternativeURIs, PastRedirections, BadAlternativeSites, Retries, uri, Status, Complete,
  DestFile, store, Trusted, tried, looped, replies, class, named, off, buffered, seekpos, Fail,
  HitEof, told, caller, mixed, nr, mode, Space, fname, tmp, inner, writebuffer, todo, written,
  failed, at, conf, file, nread, List, used, errors, aborted, signature, signedby, lines, reading,
  content, sigs, out, unchecked, Signers, gpgerror, answer, CurrentVer, PFPriority, Defaults,
  VerPins, dirty, pins_failed, history, text_file, comments, fpos, buf, start, Size, Done,
  isCommentedLine, chunks, iOffset, kept, actual, Tags, scan, after, got, call, over, protocol, peer,
  DCache, flags, pkgset, request, scenario, side, response, ops, seenOnce, begun, session, locking,
  holder, fds, apt, dpkg, others, runs_left, dpkg_status, journal, intruded, foreign, cd_step,
  cd_options, cd_disc, DirStack, BinList, SrcList, SigList, TransList, InfoLabel, CDName, Database,
  cdroms, cd_lists, cd_meta, etc, foreign_lines, added, adds, conf_file, sectional, ctree,
  conf_before, conf_op, conf_read, mirror_todo, mirror_asked, mirror_queue, msgCache, sourceslist,
  mirrorfilestate, mirror_answers, sqrtfanout, misfailed, pkg_ver, dep_ver, ver_res, Messages,
  PendingFlag, Stacks, reported

Addr(n, f) == [name |-> n, family |-> f]

Connect == INSTANCE Connect WITH
  Hosts <- {"deb", "mirror"},
  Addresses <- [h \in {"deb", "mirror"} |->
                 IF h = "deb" THEN <<Addr("1", 4), Addr("2", 6), Addr("3", 6)>> ELSE <<Addr("2", 6)>>],
  Srv <- [h \in {"deb", "mirror"} |-> IF h = "mirror" THEN {"deb"} ELSE {}],
  MaxConnects <- 3

(* Two architectures; a is co-installable, becomes foreign in its version 2, and is in the
   status file as well; b conflicts with it and recommends an alternative. *)
St(n, a, ver, ma, deps, prvs) ==
  [n |-> n, a |-> a, ver |-> ver, hash |-> 1, sha |-> "x", ma |-> ma, deps |-> deps, prvs |-> prvs, status |-> FALSE]
On(type, n, q, ver, or) == [type |-> type, n |-> n, q |-> q, ver |-> ver, or |-> or]
Of(n, q) == [n |-> n, q |-> q]

Cache == INSTANCE CacheGenerator WITH
  Native <- "amd64", Archs <- {"amd64", "i386"}, MaxStanzas <- 5,
  Stanza <- ("a1" :> St("a", "amd64", 1, "same", <<>>, <<>>)
          @@ "a1i" :> St("a", "i386", 1, "same", <<>>, <<>>)
          @@ "a1x" :> [St("a", "amd64", 1, "same", <<>>, <<>>) EXCEPT !.sha = "y"]
          @@ "a1s" :> [St("a", "amd64", 1, "same", <<>>, <<>>) EXCEPT !.sha = "", !.status = TRUE]
          @@ "a2" :> St("a", "amd64", 2, "foreign", <<>>, <<>>)
          @@ "b" :> St("b", "amd64", 1, "no",
                       <<On("Conflicts", "a", "", 2, FALSE), On("Recommends", "c", "", 0, TRUE), On("Recommends", "a", "i386", 0, FALSE)>>, <<>>)
          @@ "bi" :> St("b", "i386", 1, "foreign", <<On("Breaks", "c", "", 0, FALSE)>>, <<Of("a", "")>>)
          @@ "c" :> St("c", "i386", 1, "allowed", <<On("Depends", "a", "any", 0, FALSE)>>, <<Of("b", ""), Of("a", "amd64")>>)
          @@ "cn" :> St("c", "amd64", 1, "no", <<On("Depends", "b", "i386", 1, FALSE)>>, <<Of("a", "")>>)
          @@ "cs" :> [St("c", "amd64", 1, "no", <<On("Conflicts", "b", "amd64", 1, FALSE)>>, <<>>) EXCEPT !.sha = "", !.hash = 2, !.status = TRUE])

Stored == INSTANCE CacheFiles WITH
  Lists <- {"main"}, Procs <- {"p", "q"}, Root <- {"p"}, MaxChanges <- 1, MaxOpens <- 2

Rred == INSTANCE Rred WITH FileLines <- 3, MaxAdded <- 2, MaxCommands <- 3

Pdiff == INSTANCE PdiffItems WITH
  MaxVersion <- 6, History <- 4, FileLimit <- 3, SizeLimit <- 3, MaxRuns <- 3

Item(u, trusted, hashes) == [uri |-> u, trusted |-> trusted, hashes |-> hashes]
Fetch == INSTANCE FetchItems WITH
  Site <- ("a1" :> "a" @@ "a2" :> "a" @@ "b" :> "b" @@ "c" :> "c" @@ "file" :> "file" @@ "copy" :> "file"), Local <- {"file"},
  Redirect <- ("a1" :> {"b"} @@ "a2" :> {} @@ "b" :> {"a2", "c"} @@ "c" :> {"b", "a1"} @@ "file" :> {} @@ "copy" :> {}), Bad <- {"b"},
  Sources <- {<<Item("a1", TRUE, TRUE)>>, <<Item("file", TRUE, TRUE)>>, <<Item("c", TRUE, FALSE)>>,
              <<Item("file", FALSE, TRUE), Item("a1", TRUE, TRUE), Item("b", TRUE, TRUE), Item("a2", TRUE, TRUE), Item("c", TRUE, TRUE)>>,
              <<Item("file", TRUE, TRUE), Item("b", TRUE, TRUE), Item("c", TRUE, FALSE), Item("a2", TRUE, TRUE)>>},
  AllowUnauth <- FALSE, MaxRetries <- 1

FileFd == INSTANCE FileFd WITH FileLength <- 6, Newlines <- {2, 5}, BufferSize <- 3, MaxCalls <- 4

Replace == INSTANCE FileReplace WITH Blocks <- 3, WriteBuffer <- 2

(* Two releases and the snapshots of one of them. The entries of the first *)
(* file differ in one option each.                                         *)
NoChange == [set |-> <<>>, plus |-> <<>>, minus |-> <<>>, on |-> {}, off |-> {}]
Entry(n, u) == [name |-> n, uri |-> u, type |-> "deb", comp |-> "main", insecure |-> FALSE, trusted |-> "dontcare",
  validmin |-> 0, snapshot |-> "unset", signedby |-> "", both |-> FALSE, disabled |-> FALSE, malformed |-> FALSE,
  targets |-> NoChange, archs |-> NoChange, langs |-> NoChange]
Target(k, v, f, i, on) == [key |-> k, vars |-> v, fallback |-> f, id |-> i, enabled |-> on]
SrcFiles ==
  <<{Entry("1", "a"),
              [Entry("2", "a") EXCEPT !.trusted = "yes"], [Entry("3", "a") EXCEPT !.validmin = 5],
              [Entry("4", "a") EXCEPT !.signedby = "K1"], [Entry("5", "b") EXCEPT !.signedby = "K2"],
              [Entry("6", "b") EXCEPT !.signedby = "invalid"], [Entry("7", "b") EXCEPT !.insecure = TRUE],
              [Entry("8", "a") EXCEPT !.snapshot = "yes"], [Entry("9", "b") EXCEPT !.snapshot = "id2"],
              [Entry("10", "a") EXCEPT !.both = TRUE], [Entry("11", "b") EXCEPT !.disabled = TRUE],
              [Entry("12", "b") EXCEPT !.malformed = TRUE]},
             {Entry("13", "a"), Entry("14", "b"), [Entry("20", "a") EXCEPT !.insecure = TRUE, !.snapshot = "id2"],
              [Entry("15", "a") EXCEPT !.type = "deb-src", !.targets.on = {"Sources"}, !.archs.minus = <<"all">>],
              [Entry("16", "a") EXCEPT !.targets.plus = <<"Legacy", "Contents">>, !.langs.set = <<>>],
              [Entry("17", "b") EXCEPT !.archs.set = <<"i386", "all">>, !.targets.off = {"Translations"}],
              [Entry("18", "b") EXCEPT !.targets.set = <<"Fallback", "Packages">>, !.comp = "contrib"],
              [Entry("19", "a") EXCEPT !.snapshot = "no"]}>>
SrcInLists ==
  ("a" :> [good |-> TRUE, until |-> 9, key |-> "K1", date |-> 1] @@ "b" :> [good |-> TRUE, until |-> 3, key |-> "K1", date |-> 1]
             @@ "as" :> [good |-> FALSE, until |-> 0, key |-> "", date |-> -1] @@ "bs" :> [good |-> FALSE, until |-> 0, key |-> "", date |-> -1])
SrcAllTargets ==
  ("deb" :> <<"Fallback", "Packages", "Translations", "Contents", "Legacy">> @@ "deb-src" :> <<"Sources", "Packages">>)
SrcTemplate ==
  ("Packages" :> Target("P", {"COMPONENT", "ARCHITECTURE"}, "", "Packages", TRUE)
            @@ "Translations" :> Target("T", {"COMPONENT", "LANGUAGE"}, "", "Translations", TRUE)
            @@ "Contents" :> Target("C", {"NATIVE"}, "", "Contents", FALSE)
            @@ "Legacy" :> Target("P", {"COMPONENT", "ARCHITECTURE"}, "Contents", "Legacy", FALSE)
            @@ "Fallback" :> Target("F", {"ARCHITECTURE"}, "Packages", "Contents", TRUE)
            @@ "Sources" :> Target("S", {"COMPONENT"}, "", "Sources", FALSE))
SourceLists == INSTANCE SourcesList WITH
  Files <- SrcFiles,
  MaxEntries <- 3, Snapshots <- {"", "id"}, Server <- ("a" :> "snap" @@ "b" :> ""), HostServer <- ("a" :> "snap" @@ "b" :> ""),
  SnapshotURI <- ("a" :> "as" @@ "b" :> "bs"),
  InLists <- SrcInLists,
  MinAge <- 1, MaxAge <- 7, Now <- 5,
  AllTargets <- SrcAllTargets,
  Template <- SrcTemplate,
  Architectures <- <<"amd64", "i386">>, Languages <- <<"en", "de">>, NativeArch <- "amd64"

Signature(k, right, digest, algo, state) == [key |-> k, right |-> right, digest |-> digest, algo |-> algo, state |-> state]
GpgvMethod == INSTANCE Gpgv WITH
  Sig <- ("strong1" :> Signature("K1", TRUE, "SHA512", "rsa4096", "good")
       @@ "weak1" :> Signature("K1", TRUE, "SHA1", "rsa4096", "good")
       @@ "sub1" :> Signature("S1", TRUE, "SHA512", "ed25519", "good")
       @@ "old1" :> Signature("S1", TRUE, "SHA512", "ed25519", "EXPSIG")
       @@ "small2" :> Signature("K2", TRUE, "SHA512", "rsa1024", "good")
       @@ "strong2" :> Signature("K2", TRUE, "SHA512", "rsa4096", "good")
       @@ "wrong2" :> Signature("K2", FALSE, "SHA512", "rsa4096", "good")),
  Primary <- ("K1" :> "K1" @@ "S1" :> "K1" @@ "K2" :> "K2"),
  Keyring <- ("f1" :> {"K1"} @@ "f2" :> {"K2"} @@ "f3" :> {"K2"}), Unusable <- {"f3"}, TrustedParts <- {"f1", "f2"},
  SignedBys <- {[files |-> {}, fpts |-> <<>>], [files |-> {"f1", "f3"}, fpts |-> <<>>],
                [files |-> {}, fpts |-> <<[key |-> "K2", exact |-> FALSE], [key |-> "K1", exact |-> TRUE]>>],
                [files |-> {"f1"}, fpts |-> <<[key |-> "K1", exact |-> FALSE]>>]},
  Untrusted <- {"SHA1"}, Asserted <- {"rsa4096", "ed25519"}, MaxLines <- 7, MaxText <- 2, MaxUnsigned <- 3

(* Two packages of one source, the second in a foreign architecture too.   *)
NoFields == [f \in {"all", "pattern", "release", "a", "n", "o", "l", "v", "c", "b"} |-> ""]
Index(rel, a, c, flag) ==
  [release |-> rel, fields |-> [NoFields EXCEPT !.a = a, !.n = "n-" \o a, !.c = c, !.b = "amd64"], site |-> IF a = "stable" THEN "s1" ELSE "s2", flag |-> flag]
Version(p, arch, n, v, fs, phased) == [pkg |-> p, arch |-> arch, num |-> n, ver |-> v, src |-> "s", srcver |-> v, files |-> fs, phased |-> phased]
Record(ns, t, d, prio) == [names |-> ns, type |-> t, data |-> d, never |-> FALSE, prio |-> prio]
Selector(n, src, arch) == [name |-> n, src |-> src, arch |-> arch]
Policies == INSTANCE Policy WITH
  IndexFiles <- ("st" :> Index(TRUE, "stable", "main", "") @@ "up" :> Index(TRUE, "updates", "main", "ButAutomaticUpgrades")
                 @@ "ex" :> Index(TRUE, "exp", "contrib", "NotAutomatic") @@ "now" :> Index(FALSE, "", "now", "NotSource")),
  Vers <- <<Version("p", "amd64", 4, "4", {"ex"}, FALSE), Version("p", "amd64", 3, "3", {"up", "ex"}, FALSE),
            Version("p", "amd64", 2, "2", {"st", "now"}, FALSE), Version("p", "amd64", 1, "1", {"now"}, FALSE),
            Version("q", "amd64", 3, "3", {"up"}, TRUE), Version("q", "amd64", 2, "2", {"st"}, FALSE),
            Version("q", "i386", 3, "3", {"ex"}, FALSE), Version("q", "i386", 2, "2", {"st", "up"}, FALSE)>>,
  Glob <- ("*" :> {"p", "q", "stable", "updates", "exp"} @@ "2*" :> {"2", "2.1"} @@ "[pq]" :> {"p", "q"}), NativeArch <- "amd64",
  Records <- {Record(<<>>, "release", [NoFields EXCEPT !.all = "*"], -1),
              Record(<<>>, "release", [NoFields EXCEPT !.release = "n-stable", !.c = "main"], 1000), Record(<<>>, "origin", [NoFields EXCEPT !.pattern = "s2"], 50),
              [Record(<<>>, "release", [NoFields EXCEPT !.c = "contrib"], 0) EXCEPT !.never = TRUE],
              Record(<<>>, "version", [NoFields EXCEPT !.pattern = "2"], 10),
              Record(<<Selector("p", FALSE, "")>>, "version", [NoFields EXCEPT !.pattern = "2*"], 1000),
              Record(<<Selector("q", FALSE, "i386"), Selector("p", FALSE, "")>>, "release", [NoFields EXCEPT !.a = "exp"], 995),
              Record(<<Selector("[pq]", FALSE, "any")>>, "version", [NoFields EXCEPT !.pattern = "3"], 500),
              Record(<<Selector("s", TRUE, "")>>, "source-version", [NoFields EXCEPT !.pattern = "1"], 1001),
              Record(<<Selector("q", FALSE, "")>>, "version", [NoFields EXCEPT !.pattern = "3"], 32768)},
  MaxRecords <- 3, Currents <- {{}, {3}, {4, 6}, {2, 7}}, DefaultReleases <- {"", "stable", "now", "other"}

(* Files of up to three lines, of four if a record begins in the first and *)
(* in the last, of five with three empty lines between two records, each   *)
(* with and without a newline at the end. The records have more than three *)
(* characters.                                                             *)
FileLines == {<<"a", "a", "a", ":", "n">>, <<"b", "b", ":", "v", "n">>, <<"_", "x", "#", "n">>, <<"n">>, <<"#", "c", "n">>}
TagTexts ==
  LET ls == UNION {[1..n -> FileLines] : n \in 1..3} \cup {l \in [1..4 -> FileLines] : {l[1][1], l[4][1]} \subseteq {"a", "b"}}
            \cup {l \in [1..5 -> FileLines] : l[1][1] = "a" /\ l[5][1] = "b" /\ \A i \in 2..4 : l[i] = <<"n">>}
      Sound(l) == \A i \in 1..Len(l) : l[i][1] = "_" => \E j \in 1..i - 1 : l[j][1] \in {"a", "b"} /\ \A k \in j..i : l[k] # <<"n">>
  IN UNION {{FlattenSeq(l), Front(FlattenSeq(l))} : l \in {k \in ls : Sound(k)}}
TagFiles == INSTANCE TagFile WITH Texts <- TagTexts, InitSizes <- {1, 3}, MaxSize <- 32

(* Three packages; the versions 0 and 4 are in no index. What a package may *)
(* be marked for depends on what of it is installed.                       *)
Dep(to, or, critical) == [to |-> to, or |-> or, critical |-> critical, implicit |-> FALSE]
Marked(cur, cand, m) ==
  [cur |-> cur, cand |-> cand, mode |-> m, reinst |-> FALSE, purge |-> FALSE, protect |-> m # "keep", hold |-> FALSE, auto |-> FALSE,
   state |-> IF cur = -1 THEN "not-installed" ELSE "installed", garbage |-> FALSE]
Edsps == INSTANCE Edsp WITH
  PkgOrder <- <<"p", "q", "r">>, VersionList <- ("p" :> <<2, 0>> @@ "q" :> <<1, 4>> @@ "r" :> <<3>>), Online <- {1, 2, 3},
  DependsList <- (0 :> <<Dep("q", TRUE, TRUE), Dep("r", FALSE, TRUE)>>
                  @@ 1 :> <<Dep("r", TRUE, FALSE), Dep("p", TRUE, FALSE), Dep("q", FALSE, FALSE), Dep("p", FALSE, TRUE), Dep("r", FALSE, FALSE)>>
                  @@ 2 :> <<Dep("q", TRUE, TRUE), Dep("r", TRUE, TRUE), Dep("p", FALSE, TRUE), [Dep("r", FALSE, TRUE) EXCEPT !.implicit = TRUE],
                            Dep("r", FALSE, TRUE), Dep("r", TRUE, TRUE), Dep("q", FALSE, TRUE)>>
                  @@ 3 :> <<>> @@ 4 :> <<Dep("p", FALSE, FALSE)>>),
  AptStates <- ("p" :> {Marked(-1, 2, "install"), Marked(0, 2, "install"), Marked(2, 0, "install"), Marked(2, 2, "delete"),
                        [Marked(2, 2, "keep") EXCEPT !.reinst = TRUE, !.protect = TRUE]}
                @@ "q" :> {Marked(4, 1, "keep"), [Marked(1, 1, "keep") EXCEPT !.auto = TRUE, !.garbage = TRUE],
                           [Marked(4, 1, "keep") EXCEPT !.hold = TRUE], [Marked(4, 4, "keep") EXCEPT !.protect = TRUE]}
                @@ "r" :> {Marked(3, 3, "keep"), [Marked(-1, 3, "delete") EXCEPT !.state = "config-files", !.purge = TRUE],
                           [Marked(-1, 3, "install") EXCEPT !.state = "config-files"], Marked(-1, -1, "keep")}),
  VersionCount <- 5, MachineID <- <<"i">>, MaxStanzas <- 2

Locked == INSTANCE Locks WITH
  Apts <- {"a1", "a2"}, Commands <- ("a1" :> {"install"} @@ "a2" :> {"install", "download", "update", "clean", "autoclean"}),
  Timeouts <- ("a1" :> {-1} @@ "a2" :> {1}), MaxSwaps <- 1, MaxRuns <- 1

(* Disc 1 has links that lead around, disc 2 its archive in a directory    *)
(* and broken records, disc 3 a flat archive met three times and file names *)
(* of another place, disc 4 sources only, disc 5 a label of disc 1.        *)
D0 == [subs |-> <<>>, files |-> {}, Packages |-> 0, Sources |-> 0, gpg |-> 0, in |-> 0, Release |-> FALSE, good |-> FALSE,
       ignored |-> FALSE, unreadable |-> FALSE, trans |-> <<>>, disk |-> ""]
Sub(n, i) == [name |-> n, ino |-> i, link |-> FALSE]
Lnk(n, i) == [name |-> n, ino |-> i, link |-> TRUE]
Deb(n, z) == [name |-> n, size |-> z]
Rec(p, z) == [file |-> p, size |-> z]
Disc1 ==
  [root |-> 1,
   dir |-> (1 :> [D0 EXCEPT !.subs = <<Lnk("debian", 1), Sub("dists", 2), Sub("pool", 3), Lnk("main", 6)>>, !.disk = "D[1]"]
         @@ 2 :> [D0 EXCEPT !.subs = <<Lnk("testing", 4), Sub("stable", 4)>>]
         @@ 3 :> [D0 EXCEPT !.files = {Deb("a", 1), Deb("b", 2), Deb("s", 3)}]
         @@ 4 :> [D0 EXCEPT !.subs = <<Sub("main", 5), Sub("contrib", 9)>>, !.gpg = 20, !.Release = TRUE, !.good = TRUE]
         @@ 5 :> [D0 EXCEPT !.subs = <<Sub("binary-amd64", 6), Sub("binary-i386", 7), Sub("source", 8), Lnk("up", 4)>>,
                            !.trans = <<[lang |-> "de", ino |-> 30], [lang |-> "tlh", ino |-> 31]>>]
         @@ 6 :> [D0 EXCEPT !.Packages = 11] @@ 7 :> [D0 EXCEPT !.Packages = 12] @@ 8 :> [D0 EXCEPT !.Sources = 13]
         @@ 9 :> [D0 EXCEPT !.subs = <<Sub("binary-amd64", 10), Sub("debian-installer", 15), Sub("binary-all", 16)>>]
         @@ 10 :> [D0 EXCEPT !.Packages = 14] @@ 15 :> [D0 EXCEPT !.Packages = 17] @@ 16 :> [D0 EXCEPT !.files = {Deb("c", 4)}]),
   records |-> (11 :> <<Rec(<<"pool", "a">>, 1), Rec(<<"pool", "b">>, 9), Rec(<<"pool", "x">>, 1)>> @@ 12 :> <<>>
             @@ 13 :> <<Rec(<<"pool", "s">>, 3)>> @@ 17 :> <<>>
             @@ 14 :> <<Rec(<<"dists", "stable", "contrib", "binary-amd64", "c">>, 4), Rec(<<"pool", "b">>, 2)>>)]
Disc2 ==
  [root |-> 1,
   dir |-> (1 :> [D0 EXCEPT !.subs = <<Sub("debian", 2), Sub("other", 8)>>]
         @@ 2 :> [D0 EXCEPT !.subs = <<Sub("dists", 3), Sub("pool", 7)>>]
         @@ 3 :> [D0 EXCEPT !.subs = <<Sub("unstable", 4), Lnk("sid", 4)>>]
         @@ 4 :> [D0 EXCEPT !.subs = <<Sub("main", 5)>>, !.in = 20, !.good = TRUE]
         @@ 5 :> [D0 EXCEPT !.subs = <<Sub("binary-amd64", 6)>>] @@ 6 :> [D0 EXCEPT !.Packages = 11]
         @@ 7 :> [D0 EXCEPT !.files = {Deb("a", 1), Deb("b", 2)}]
         @@ 8 :> [D0 EXCEPT !.ignored = TRUE, !.Packages = 12]),
   records |-> (11 :> <<Rec(<<"pool", "x">>, 1), Rec(<<"pool", "a">>, 7), Rec(<<"pool", "b">>, 2), Rec(<<"pool", "a">>, 1)>> @@ 12 :> <<>>)]
Disc3 ==
  [root |-> 1,
   dir |-> (1 :> [D0 EXCEPT !.subs = <<Lnk("x", 2), Lnk("y", 2), Sub("repo", 2), Sub("stable", 3)>>, !.disk = "flat"]
         @@ 2 :> [D0 EXCEPT !.Packages = 11, !.files = {Deb("a", 1), Deb("b", 2)}]
         @@ 3 :> [D0 EXCEPT !.Packages = 12, !.files = {Deb("c", 1), Deb("d", 2)}, !.subs = <<Sub("below", 4)>>]
         @@ 4 :> [D0 EXCEPT !.Packages = 13, !.Sources = 14]),
   records |-> (11 :> <<Rec(<<"a">>, 1), Rec(<<"b">>, 2)>> @@ 12 :> <<Rec(<<"old", "place", "c">>, 1), Rec(<<"old", "place", "d">>, 2)>>
             @@ 13 :> <<>> @@ 14 :> <<>>)]
Disc4 ==
  [root |-> 1,
   dir |-> (1 :> [D0 EXCEPT !.subs = <<Sub("dists", 2), Sub("pool", 5)>>]
         @@ 2 :> [D0 EXCEPT !.subs = <<Sub("stable", 3)>>] @@ 3 :> [D0 EXCEPT !.subs = <<Sub("main", 4)>>]
         @@ 4 :> [D0 EXCEPT !.subs = <<Sub("source", 6)>>] @@ 5 :> [D0 EXCEPT !.files = {Deb("s", 3)}]
         @@ 6 :> [D0 EXCEPT !.Sources = 11]),
   records |-> (11 :> <<Rec(<<"pool", "s">>, 3)>>)]
Disc5 ==
  [root |-> 1,
   dir |-> (1 :> [D0 EXCEPT !.subs = <<Sub("a", 2), Sub("b", 3)>>, !.disk = "D[1]"]
         @@ 2 :> [D0 EXCEPT !.Packages = 11, !.files = {Deb("a", 1)}]
         @@ 3 :> [D0 EXCEPT !.unreadable = TRUE]),
   records |-> (11 :> <<Rec(<<"a">>, 1)>>)]
Disc6 == [Disc5 EXCEPT !.dir[1].subs = <<Sub("a", 2)>>]
Disc7 == [Disc6 EXCEPT !.dir[1].disk = "seven", !.records[11] = <<Rec(<<"a">>, 1), Rec(<<"a">>, 0)>>]
OldEntry == [kind |-> "entry", type |-> "deb", name |-> "", entry |-> <<>>]
OldSource == [OldEntry EXCEPT !.type = "deb-src"]
Comment == [kind |-> "comment", type |-> "", name |-> "", entry |-> <<>>]
Cd == INSTANCE Cdrom WITH
  Discs <- <<Disc1, Disc2, Disc3, Disc4, Disc5, Disc6, Disc7>>,
  Binaries <- {"binary-amd64", "binary-i386", "binary-all"}, Accepted <- {"binary-amd64", "binary-all"}, Languages <- {"de"},
  Names <- {"n", "flat", "b]"}, Valid <- {"n", "flat"}, Escape <- ("D[1]" :> "D_1_" @@ "flat" :> "flat" @@ "seven" :> "seven"),
  MaxDepth <- 7, OldLines <- {<<>>, <<Comment>>, <<Comment, OldSource, Comment, OldEntry>>},
  Options <- {{}, {"Thorough"}, {"Rename"}, {"NoAct"}}, MaxAdds <- 2

(* Files of up to three lines. The words have tags below a and d; inc is a *)
(* file that includes itself.                                              *)
Q == "\""
ConfLines ==
  {<<"a", "{">>, <<"b", Q, "x", Q, ";", "}", ";">>, <<"a", "{", Q, "x", ";", "//", "y", Q, ";">>, <<"}", ";", "b", "d", ";">>, <<"//", "a", Q, "x", Q, ";">>,
   <<"d", Q, "x", Q, "/*", "b", Q, "y", Q, ";">>, <<"y", "*/", ";", "d", Q, "y", "#", Q, ";", "#", "z">>, <<"a::b", Q, "x", Q, ";", "#clear", "a", ";">>,
   <<"#include", "inc", ";">>, <<"#include", "loop", ";">>, <<"a::b", Q, "y", Q, ";", "/*", "}", "*/", "d", Q, "x", Q, Q, "y", Q, ";">>,
   <<"a::", Q, "y", Q, ";", "a::", Q, "x", Q, ";">>, <<"d", "b">>, <<"a", Q, "b", Q, "{", "b", Q, "z", Q, "}">>, <<"#clear", ";">>, <<"#other", "a", ";">>,
   <<"d::a::b", Q, "x", Q, ";", "d::a::", Q, "y", Q, ";">>, <<"b", "/*", "//", "*/", ";">>, <<"d", Q, "w", Q, "{", "a", "{", Q, "z", Q, "}", "}">>}
Config == INSTANCE Configuration WITH
  Lines <- ConfLines, MaxLines <- 2,
  Included <- ("inc" :> <<<<"a", Q, "i", Q, ";">>, <<"a", "b", ";">>>> @@ "loop" :> <<<<"#include", "loop", ";">>>>),
  Split <- ("a" :> <<"a">> @@ "b" :> <<"b">> @@ "d" :> <<"d">> @@ "" :> <<"">> @@ "a::b" :> <<"a", "b">> @@ "a::" :> <<"a", "">>
         @@ "d::a" :> <<"d", "a">> @@ "d::" :> <<"d", "">> @@ "d::b" :> <<"d", "b">> @@ "d::a::b" :> <<"d", "a", "b">> @@ "d::a::" :> <<"d", "a", "">>),
  Sectional <- {FALSE, TRUE}, Moves <- {<<<<"d">>, <<>>>>, <<<<"a">>, <<"d">>>>, <<<<"a">>, <<"a", "b">>>>, <<<<"d">>, <<"a">>>>, <<<<"d", "a">>, <<"a">>>>},
  SetPaths <- {<<"a">>, <<"a", "b">>, <<"d", "">>}, SetValues <- {<<"x">>, <<"y">>}

(* A list below another one, and a third one; local mirrors, a mirror for *)
(* one architecture only, and one of a lower priority.                     *)
Mir(u, p, a, l) == [uri |-> u, priority |-> p, arch |-> a, local |-> l]
Mirrors == INSTANCE Mirror WITH
  Requests <- {"f", "b", "c", "o"},
  Repos <- ("foo" :> [len |-> 4, below |-> {"foo"}, online |-> TRUE] @@ "bar" :> [len |-> 8, below |-> {"foo", "bar"}, online |-> TRUE]
         @@ "etc" :> [len |-> 5, below |-> {"etc"}, online |-> FALSE]),
  Below <- ("f" :> {"foo"} @@ "b" :> {"foo", "bar"} @@ "c" :> {"foo", "bar"} @@ "o" :> {"etc"}),
  TargetRepo <- ("f" :> "foo" @@ "b" :> "bar" @@ "c" :> "" @@ "o" :> "etc"),
  TargetArch <- ("f" :> "amd64" @@ "b" :> "amd64" @@ "c" :> "i386" @@ "o" :> "i386"),
  InSources <- {"foo", "bar"},
  ListFiles <- ("foo" :> {<<>>, <<Mir("1", 1, {}, FALSE), Mir("2", 1, {"i386"}, FALSE), Mir("3", 0, {}, TRUE), Mir("4", 2, {}, FALSE)>>}
             @@ "bar" :> {<<Mir("3", 1, {}, TRUE)>>, <<Mir("1", 1, {}, FALSE), Mir("5", 1, {}, FALSE)>>}
             @@ "etc" :> {<<Mir("3", 1, {"amd64"}, TRUE)>>, <<>>}),
  Fanout <- {TRUE, FALSE}, FanoutLimit <- 0

(* Upstream versions of up to three of the characters that matter, some    *)
(* with an epoch or a revision.                                            *)
Chars == {"0", "1", "a", "~", "."}
Upstream == {<<"1">> \o s : s \in {<<>>} \cup {<<c>> : c \in Chars} \cup {<<c, d>> : c, d \in Chars}}
Debver == INSTANCE DebVersion WITH
  Versions <- Upstream \cup {e \o u \o r : e \in {<<>>, <<"0", ":">>, <<"1", ":">>, <<"1", "0", ":">>},
                                     u \in {<<"1">>, <<"0">>, <<"1", "~">>, <<"1", "-", "a">>}, r \in {<<"-", "0">>, <<"-", "1", "~">>}},
  Digit <- ("0" :> 0 @@ "1" :> 1), Order <- ("a" :> 97 @@ "." :> 302 @@ "-" :> 301)

Errors == INSTANCE ErrorStack WITH Types <- {20, 30, 40}, MaxMessages <- 4, MaxStacks <- 2

connectVars == <<LastHost, LastHostAddr, LastUsed, bad_addr, SrvRecords, job, calls>>
cacheVars == <<cache, merged>>
storedVars == <<disk, sources, stored, now, opens, proc>>
rredVars == <<changes, where, pos, chOffset, text, commands>>
pdiffVars == <<server, pdiff_merge, final, claimed, partial, ed, eds, index, chain, merge, staged, full, runs>>
fetchVars == <<kind, from, AlternativeURIs, PastRedirections, BadAlternativeSites, Retries, uri, Status, Complete, DestFile, store, Trusted, tried, looped, replies>>
filefdVars == <<class, named, off, buffered, seekpos, Fail, HitEof, told, caller, mixed, nr>>
replaceVars == <<mode, Space, fname, tmp, inner, writebuffer, todo, written, failed, at>>
sourcesVars == <<conf, file, nread, List, used, errors, aborted>>
gpgvVars == <<signature, signedby, lines, reading, content, sigs, out, unchecked, Signers, gpgerror, answer>>
policyVars == <<CurrentVer, PFPriority, Defaults, VerPins, dirty, pins_failed, history>>
tagfileVars == <<text_file, comments, fpos, buf, start, Size, Done, isCommentedLine, chunks, iOffset, kept, actual, Tags, scan, after, got, call, over>>
edspVars == <<protocol, peer, DCache, flags, pkgset, request, scenario, side, response, ops, seenOnce, begun, session>>
locksVars == <<locking, holder, fds, apt, dpkg, others, runs_left, dpkg_status, journal, intruded, foreign>>
cdromVars == <<cd_step, cd_options, cd_disc, DirStack, BinList, SrcList, SigList, TransList, InfoLabel, CDName, Database, cdroms, cd_lists, cd_meta, etc, foreign_lines, added, adds>>
configVars == <<conf_file, sectional, ctree, conf_before, conf_op, conf_read>>
mirrorVars == <<mirror_todo, mirror_asked, mirror_queue, msgCache, sourceslist, mirrorfilestate, mirror_answers, sqrtfanout, misfailed>>
versionVars == <<pkg_ver, dep_ver, ver_res>>
errorsVars == <<Messages, PendingFlag, Stacks, reported>>
vars == <<part, connectVars, cacheVars, storedVars, rredVars, pdiffVars, fetchVars, filefdVars,
          replaceVars, sourcesVars, gpgvVars, policyVars, tagfileVars, edspVars, locksVars,
          cdromVars, configVars, mirrorVars, versionVars, errorsVars>>

Init ==
  /\ part \in {"connect", "cache", "stored", "rred", "pdiff", "fetch", "filefd", "replace",
             "sources", "gpgv", "policy", "tagfile", "edsp", "locks", "cdrom", "config", "mirror",
             "version", "errors"}
  /\ \/ part = "connect" /\ Connect!Init
     \/ part # "connect" /\ LastHost = 0 /\ LastHostAddr = 0 /\ LastUsed = 0 /\ bad_addr = 0
        /\ SrvRecords = 0 /\ job = 0 /\ calls = 0
  /\ \/ part = "cache" /\ Cache!Init
     \/ part # "cache" /\ cache = 0 /\ merged = 0
  /\ \/ part = "stored" /\ Stored!Init
     \/ part # "stored" /\ disk = 0 /\ sources = 0 /\ stored = 0 /\ now = 0 /\ opens = 0 /\ proc = 0
  /\ \/ part = "rred" /\ Rred!Init
     \/ part # "rred" /\ changes = 0 /\ where = 0 /\ pos = 0 /\ chOffset = 0 /\ text = 0 /\ commands = 0
  /\ \/ part = "pdiff" /\ Pdiff!Init
     \/ part # "pdiff" /\ server = 0 /\ pdiff_merge = 0 /\ final = 0 /\ claimed = 0 /\ partial = 0
        /\ ed = 0 /\ eds = 0 /\ index = 0 /\ chain = 0 /\ merge = 0 /\ staged = 0
        /\ full = 0 /\ runs = 0
  /\ \/ part = "fetch" /\ Fetch!Init
     \/ part # "fetch" /\ kind = 0 /\ from = 0 /\ AlternativeURIs = 0 /\ PastRedirections = 0
        /\ BadAlternativeSites = 0 /\ Retries = 0 /\ uri = 0 /\ Status = 0 /\ Complete = 0
        /\ DestFile = 0 /\ store = 0 /\ Trusted = 0 /\ tried = 0 /\ looped = 0
        /\ replies = 0
  /\ \/ part = "filefd" /\ FileFd!Init
     \/ part # "filefd" /\ class = 0 /\ named = 0 /\ off = 0 /\ buffered = 0 /\ seekpos = 0 /\ Fail = 0
        /\ HitEof = 0 /\ told = 0 /\ caller = 0 /\ mixed = 0 /\ nr = 0
  /\ \/ part = "replace" /\ Replace!Init
     \/ part # "replace" /\ mode = 0 /\ Space = 0 /\ fname = 0 /\ tmp = 0 /\ inner = 0 /\ writebuffer = 0
        /\ todo = 0 /\ written = 0 /\ failed = 0 /\ at = 0
  /\ \/ part = "sources" /\ SourceLists!Init
     \/ part # "sources" /\ conf = 0 /\ file = 0 /\ nread = 0 /\ List = 0 /\ used = 0 /\ errors = 0
        /\ aborted = 0
  /\ \/ part = "gpgv" /\ GpgvMethod!Init
     \/ part # "gpgv" /\ signature = 0 /\ signedby = 0 /\ lines = 0 /\ reading = 0 /\ content = 0
        /\ sigs = 0 /\ out = 0 /\ unchecked = 0 /\ Signers = 0 /\ gpgerror = 0
        /\ answer = 0
  /\ \/ part = "policy" /\ Policies!Init
     \/ part # "policy" /\ CurrentVer = 0 /\ PFPriority = 0 /\ Defaults = 0 /\ VerPins = 0 /\ dirty = 0
        /\ pins_failed = 0 /\ history = 0
  /\ \/ part = "tagfile" /\ TagFiles!Init
     \/ part # "tagfile" /\ text_file = 0 /\ comments = 0 /\ fpos = 0 /\ buf = 0 /\ start = 0 /\ Size = 0
        /\ Done = 0 /\ isCommentedLine = 0 /\ chunks = 0 /\ iOffset = 0 /\ kept = 0
        /\ actual = 0 /\ Tags = 0 /\ scan = 0 /\ after = 0 /\ got = 0 /\ call = 0 /\ over = 0
  /\ \/ part = "edsp" /\ Edsps!Init
     \/ part # "edsp" /\ protocol = 0 /\ peer = 0 /\ DCache = 0 /\ flags = 0 /\ pkgset = 0 /\ request = 0
        /\ scenario = 0 /\ side = 0 /\ response = 0 /\ ops = 0 /\ seenOnce = 0 /\ begun = 0
        /\ session = 0
  /\ \/ part = "locks" /\ Locked!Init
     \/ part # "locks" /\ locking = 0 /\ holder = 0 /\ fds = 0 /\ apt = 0 /\ dpkg = 0 /\ others = 0
        /\ runs_left = 0 /\ dpkg_status = 0 /\ journal = 0 /\ intruded = 0 /\ foreign = 0
  /\ \/ part = "cdrom" /\ Cd!Init
     \/ part # "cdrom" /\ cd_step = 0 /\ cd_options = 0 /\ cd_disc = 0 /\ DirStack = 0 /\ BinList = 0
        /\ SrcList = 0 /\ SigList = 0 /\ TransList = 0 /\ InfoLabel = 0 /\ CDName = 0
        /\ Database = 0 /\ cdroms = 0 /\ cd_lists = 0 /\ cd_meta = 0 /\ etc = 0
        /\ foreign_lines = 0 /\ added = 0 /\ adds = 0
  /\ \/ part = "config" /\ Config!Init
     \/ part # "config" /\ conf_file = 0 /\ sectional = 0 /\ ctree = 0 /\ conf_before = 0 /\ conf_op = 0
        /\ conf_read = 0
  /\ \/ part = "mirror" /\ Mirrors!Init
     \/ part # "mirror" /\ mirror_todo = 0 /\ mirror_asked = 0 /\ mirror_queue = 0 /\ msgCache = 0
        /\ sourceslist = 0 /\ mirrorfilestate = 0 /\ mirror_answers = 0 /\ sqrtfanout = 0
        /\ misfailed = 0
  /\ \/ part = "version" /\ Debver!Init
     \/ part # "version" /\ pkg_ver = 0 /\ dep_ver = 0 /\ ver_res = 0
  /\ \/ part = "errors" /\ Errors!Init
     \/ part # "errors" /\ Messages = 0 /\ PendingFlag = 0 /\ Stacks = 0 /\ reported = 0

Next ==
  /\ part' = part
  /\ \/ /\ part = "connect" /\ Connect!Next
        /\ UNCHANGED <<cacheVars, storedVars, rredVars, pdiffVars, fetchVars, filefdVars,
                      replaceVars, sourcesVars, gpgvVars, policyVars, tagfileVars, edspVars,
                      locksVars, cdromVars, configVars, mirrorVars, versionVars, errorsVars>>
     \/ /\ part = "cache" /\ Cache!Next
        /\ UNCHANGED <<connectVars, storedVars, rredVars, pdiffVars, fetchVars, filefdVars,
                      replaceVars, sourcesVars, gpgvVars, policyVars, tagfileVars, edspVars,
                      locksVars, cdromVars, configVars, mirrorVars, versionVars, errorsVars>>
     \/ /\ part = "stored" /\ Stored!Next
        /\ UNCHANGED <<connectVars, cacheVars, rredVars, pdiffVars, fetchVars, filefdVars,
                      replaceVars, sourcesVars, gpgvVars, policyVars, tagfileVars, edspVars,
                      locksVars, cdromVars, configVars, mirrorVars, versionVars, errorsVars>>
     \/ /\ part = "rred" /\ Rred!Next
        /\ UNCHANGED <<connectVars, cacheVars, storedVars, pdiffVars, fetchVars, filefdVars,
                      replaceVars, sourcesVars, gpgvVars, policyVars, tagfileVars, edspVars,
                      locksVars, cdromVars, configVars, mirrorVars, versionVars, errorsVars>>
     \/ /\ part = "pdiff" /\ Pdiff!Next
        /\ UNCHANGED <<connectVars, cacheVars, storedVars, rredVars, fetchVars, filefdVars,
                      replaceVars, sourcesVars, gpgvVars, policyVars, tagfileVars, edspVars,
                      locksVars, cdromVars, configVars, mirrorVars, versionVars, errorsVars>>
     \/ /\ part = "fetch" /\ Fetch!Next
        /\ UNCHANGED <<connectVars, cacheVars, storedVars, rredVars, pdiffVars, filefdVars,
                      replaceVars, sourcesVars, gpgvVars, policyVars, tagfileVars, edspVars,
                      locksVars, cdromVars, configVars, mirrorVars, versionVars, errorsVars>>
     \/ /\ part = "filefd" /\ FileFd!Next
        /\ UNCHANGED <<connectVars, cacheVars, storedVars, rredVars, pdiffVars, fetchVars,
                      replaceVars, sourcesVars, gpgvVars, policyVars, tagfileVars, edspVars,
                      locksVars, cdromVars, configVars, mirrorVars, versionVars, errorsVars>>
     \/ /\ part = "replace" /\ Replace!Next
        /\ UNCHANGED <<connectVars, cacheVars, storedVars, rredVars, pdiffVars, fetchVars,
                      filefdVars, sourcesVars, gpgvVars, policyVars, tagfileVars, edspVars,
                      locksVars, cdromVars, configVars, mirrorVars, versionVars, errorsVars>>
     \/ /\ part = "sources" /\ SourceLists!Next
        /\ UNCHANGED <<connectVars, cacheVars, storedVars, rredVars, pdiffVars, fetchVars,
                      filefdVars, replaceVars, gpgvVars, policyVars, tagfileVars, edspVars,
                      locksVars, cdromVars, configVars, mirrorVars, versionVars, errorsVars>>
     \/ /\ part = "gpgv" /\ GpgvMethod!Next
        /\ UNCHANGED <<connectVars, cacheVars, storedVars, rredVars, pdiffVars, fetchVars,
                      filefdVars, replaceVars, sourcesVars, policyVars, tagfileVars, edspVars,
                      locksVars, cdromVars, configVars, mirrorVars, versionVars, errorsVars>>
     \/ /\ part = "policy" /\ Policies!Next
        /\ UNCHANGED <<connectVars, cacheVars, storedVars, rredVars, pdiffVars, fetchVars,
                      filefdVars, replaceVars, sourcesVars, gpgvVars, tagfileVars, edspVars,
                      locksVars, cdromVars, configVars, mirrorVars, versionVars, errorsVars>>
     \/ /\ part = "tagfile" /\ TagFiles!Next
        /\ UNCHANGED <<connectVars, cacheVars, storedVars, rredVars, pdiffVars, fetchVars,
                      filefdVars, replaceVars, sourcesVars, gpgvVars, policyVars, edspVars,
                      locksVars, cdromVars, configVars, mirrorVars, versionVars, errorsVars>>
     \/ /\ part = "edsp" /\ Edsps!Next
        /\ UNCHANGED <<connectVars, cacheVars, storedVars, rredVars, pdiffVars, fetchVars,
                      filefdVars, replaceVars, sourcesVars, gpgvVars, policyVars, tagfileVars,
                      locksVars, cdromVars, configVars, mirrorVars, versionVars, errorsVars>>
     \/ /\ part = "locks" /\ Locked!Next
        /\ UNCHANGED <<connectVars, cacheVars, storedVars, rredVars, pdiffVars, fetchVars,
                      filefdVars, replaceVars, sourcesVars, gpgvVars, policyVars, tagfileVars,
                      edspVars, cdromVars, configVars, mirrorVars, versionVars, errorsVars>>
     \/ /\ part = "cdrom" /\ Cd!Next
        /\ UNCHANGED <<connectVars, cacheVars, storedVars, rredVars, pdiffVars, fetchVars,
                      filefdVars, replaceVars, sourcesVars, gpgvVars, policyVars, tagfileVars,
                      edspVars, locksVars, configVars, mirrorVars, versionVars, errorsVars>>
     \/ /\ part = "config" /\ Config!Next
        /\ UNCHANGED <<connectVars, cacheVars, storedVars, rredVars, pdiffVars, fetchVars,
                      filefdVars, replaceVars, sourcesVars, gpgvVars, policyVars, tagfileVars,
                      edspVars, locksVars, cdromVars, mirrorVars, versionVars, errorsVars>>
     \/ /\ part = "mirror" /\ Mirrors!Next
        /\ UNCHANGED <<connectVars, cacheVars, storedVars, rredVars, pdiffVars, fetchVars,
                      filefdVars, replaceVars, sourcesVars, gpgvVars, policyVars, tagfileVars,
                      edspVars, locksVars, cdromVars, configVars, versionVars, errorsVars>>
     \/ /\ part = "version" /\ Debver!Next
        /\ UNCHANGED <<connectVars, cacheVars, storedVars, rredVars, pdiffVars, fetchVars,
                      filefdVars, replaceVars, sourcesVars, gpgvVars, policyVars, tagfileVars,
                      edspVars, locksVars, cdromVars, configVars, mirrorVars, errorsVars>>
     \/ /\ part = "errors" /\ Errors!Next
        /\ UNCHANGED <<connectVars, cacheVars, storedVars, rredVars, pdiffVars, fetchVars,
                      filefdVars, replaceVars, sourcesVars, gpgvVars, policyVars, tagfileVars,
                      edspVars, locksVars, cdromVars, configVars, mirrorVars, versionVars>>

Spec == Init /\ [][Next]_vars

(* A host, or a mirror list, is given up only after each of its addresses  *)
(* or mirrors had its turn, in the order that rotation and priorities ask  *)
(* for (Connect, OrderAddresses in methods/connect.cc; RedirectItem and    *)
(* DealWithPendingItems in methods/mirror.cc).                             *)
SitesTried ==
  /\ part = "connect" => Connect!AddressesTried
  /\ part = "mirror" => Mirrors!MirrorsTried

(* In whatever order the stanzas of all architectures come, the cache      *)
(* pkgCacheGenerator builds has the provides, the dependencies and the     *)
(* implicit ones they mean, or-groups in one piece, lists sorted and equal *)
(* data shared.                                                            *)
CacheExact == part = "cache" => Cache!CacheExact

(* Whatever another process changes or writes meanwhile, a cache that was  *)
(* opened describes the files sources.list named, each as it was at one    *)
(* moment of the opening (CheckValidity, BuildCaches in pkgcachegen.cc).   *)
CacheFresh == part = "stored" => Stored!CacheFresh

(* Applying merged patches gives the text of applying one after the other  *)
(* (MergeableFile and Patch in methods/rred.cc), and a run with patches    *)
(* ends with the file the Release file lists or falls back to the whole    *)
(* file (pkgAcqDiffIndex, pkgAcqIndexDiffs, pkgAcqIndexMergeDiffs).        *)
PatchesRight ==
  /\ part = "rred" => Rred!MergedAsSequence
  /\ part = "pdiff" => Pdiff!PatchOrWhole

(* An archive is taken over complete and verified or not at all, each      *)
(* source was asked before it is given up, and a method that waits for an  *)
(* auxiliary file gets one answer (pkgAcqArchive, pkgAcqFile,              *)
(* pkgAcqAuxFile).                                                         *)
ItemsServed == part = "fetch" => Fetch!ItemsServed

(* Whatever mixture of calls was made, a FileFd stands where they put it;  *)
(* and a reader of a file that FileFd replaces sees the old or the new one,*)
(* while the writer is told which.                                         *)
FilesExact ==
  /\ part = "filefd" => FileFd!PositionExact
  /\ part = "replace" => Replace!ReplaceSafe

(* Each index file some entry of the sources wants is asked for once, with *)
(* the trust, keys and dates that all entries of its release agree on      *)
(* (pkgSourceList, debReleaseIndex).                                       *)
SourcesAsWritten == part = "sources" => SourceLists!SourcesAsWritten

(* A file is accepted only with a trustworthy signature of an allowed key  *)
(* and none that is wrong, and all of its content was signed               *)
(* (methods/gpgv.cc, gpgv.cc).                                             *)
AcceptedIsSigned == part = "gpgv" => GpgvMethod!AcceptedIsSigned

(* The priorities are what all pins mean together, and the candidate is the*)
(* newest version with the greatest one that is no forbidden downgrade     *)
(* (pkgPolicy, pkgVersionMatch).                                           *)
PinsAsWritten == part = "policy" => Policies!PinsAsWritten

(* Wherever the buffer ends, pkgTagFile returns the records of the file,   *)
(* each once, complete and in order, and its offsets lead back to them.    *)
RecordsExact == part = "tagfile" => TagFiles!RecordsExact

(* A request arrives at an external solver or planner as it was made, and  *)
(* its answer arrives in the depcache or in the order list as it was given *)
(* (edsp.cc).                                                              *)
DialogueFaithful == part = "edsp" => Edsps!DialogueFaithful

(* A plan is carried out on the dpkg status it was made for, no two        *)
(* processes write what a lock protects, and the lock code closes its own  *)
(* descriptors only (debSystem, pkgAcquire, InstallPackages).              *)
LocksProtect == part = "locks" => Locked!LocksProtect

(* A disc that was added can be used, whatever links and repeats are on it,*)
(* but for the sources of a first disc that has nothing else, and nothing  *)
(* about other discs and sources is lost, not even by a crash              *)
(* (pkgCdrom::Add, IndexCopy, SigVerify).                                  *)
DiscAdded == part = "cdrom" => Cd!DiscAdded

(* A configuration file is read as written, a dump of the tree restores it,*)
(* and a subtree moves as a whole (ReadConfigFile, Dump and MoveSubTree in *)
(* configuration.cc).                                                      *)
TreeExact == part = "config" => Config!TreeExact

(* Versions are ordered as deb-version(7) says, the same from both sides,  *)
(* and the relations of dependencies follow this order (debversion.cc).    *)
VersionsOrdered == part = "version" => Debver!VersionsOrdered

(* However pushes, merges and reverts are nested, the pending flag is right*)
(* and no message is lost or overtaken (error.cc).                         *)
ErrorsExact == part = "errors" => Errors!ErrorsExact
=============================================================================
