-------------------------------- MODULE Gpgv --------------------------------
(***************************************************************************)
(* Verifying a Release file: the reading of a clear-signed file or of a    *)
(* detached signature line by line, the choice of keyrings for gpgv        *)
(* (contrib/gpgv.cc), and what the gpgv method makes of the status lines   *)
(* that gpgv prints (methods/gpgv.cc).                                     *)
(*                                                                         *)
(* A line of a file is its class: the three armor lines "begin", "bsig"    *)
(* and "esig", an empty line, a dash-escaped line, another line with a     *)
(* dash, text, or a signature out of Sigs, the body of a signature block.  *)
(* Key ids stand for fingerprints: no two keys share a long id.            *)
(***************************************************************************)
EXTENDS Integers, Sequences, FiniteSets, SequencesExt, TLC

CONSTANTS
  Sig,           \* [signature -> [key, right, digest, algo, state]]
  Primary,       \* [key -> its primary key]
  Keyring,       \* [key file -> keys in it]
  Unusable,      \* key files that cannot be read or have an unknown format
  TrustedParts,  \* the key files of Dir::Etc::TrustedParts
  SignedBys,     \* Signed-By values: [files, fpts], fpts a sequence of [key, exact]
  Untrusted,     \* untrusted digests
  Asserted,      \* accepted public key algorithms
  MaxLines,      \* bound: lines of a file
  MaxText,       \* bound: lines of a file that are not of the armor
  MaxUnsigned    \* bound: lines of a file that does not begin like a signed one

VARIABLES
  signature, \* "clear" (InRelease) or "detached" (Release.gpg)
  signedby,  \* the Signed-By field of the message
  lines,     \* the lines read so far
  reading,   \* where in the file the reader is
  content,   \* lines written to the message file
  sigs,      \* signatures written to the signature file
  out,       \* status lines gpgv has printed, not yet read
  unchecked, \* signatures gpgv has not looked at, or "exited"
  Signers,   \* SignersStorage
  gpgerror,  \* an error is pending in the method
  answer     \* of the method: "", "201 URI Done", "400 URI Failure"

Sigs == DOMAIN Sig
gpvars == <<signature, signedby, lines, reading, content, sigs, out, unchecked, Signers, gpgerror, answer>>

Init ==
  /\ signature \in {"clear", "detached"} /\ signedby \in SignedBys
  /\ lines = <<>> /\ content = <<>> /\ sigs = <<>>
  /\ reading = (IF signature = "clear" THEN "start" ELSE "closed")
  /\ out = <<>> /\ unchecked = <<>> /\ gpgerror = FALSE /\ answer = ""
  /\ Signers = [Good |-> <<>>, Bad |-> {}, Worthless |-> {}, NoPubKey |-> {}, Valid |-> {}, Sub |-> {}, SignedBy |-> {}]

-----------------------------------------------------------------------------
(* SplitClearSignedFile, the parts of the file in turn. A refusal is an    *)
(* error, except for a file that does not begin with a signed message and  *)
(* has none later: that one is taken for an unsigned file.                 *)
Text == {"text", "empty", "escaped"}
Dashed(l) == l \in {"begin", "bsig", "esig", "escaped", "dash"}

ReadStart(l) == reading' = (IF l = "begin" THEN "armor" ELSE "unsigned") /\ UNCHANGED <<content, sigs>>
ReadUnsigned(l) == reading' = (IF l = "begin" THEN "refused" ELSE "unsigned") /\ UNCHANGED <<content, sigs>>
ReadArmor(l) ==
  /\ reading' = (IF l = "empty" THEN "message" ELSE IF Dashed(l) THEN "refused" ELSE "armor")
  /\ UNCHANGED <<content, sigs>>
ReadMessage(l) ==
  /\ reading' = (IF l = "bsig" THEN "open" ELSE IF Dashed(l) /\ l # "escaped" THEN "refused" ELSE "message")
  /\ content' = IF ~Dashed(l) \/ l = "escaped" THEN Append(content, l) ELSE content
  /\ UNCHANGED sigs
ReadSignature(l) ==
  /\ reading' = (IF l = "esig" THEN "closed" ELSE IF Dashed(l) THEN "refused" ELSE "open")
  /\ sigs' = IF l \in Sigs THEN Append(sigs, l) ELSE sigs
  /\ UNCHANGED content
\* mutant: what follows a signature is skipped
ReadAfterSkips(l) == reading' = (IF l = "bsig" THEN "open" ELSE reading) /\ UNCHANGED <<content, sigs>>
ReadAfter(l) == reading' = (IF l = "bsig" THEN "open" ELSE "refused") /\ UNCHANGED <<content, sigs>>

(* VerifyDetachedSignatureFile: signatures and nothing else. Other lines   *)
(* in front of the first signature are remembered, so that a file without  *)
(* any signature is told from a bad one.                                   *)
ReadDetached(l) ==
  \/ reading = "closed" /\ l # "bsig" /\ sigs = <<>> /\ reading' = "garbage" /\ UNCHANGED <<content, sigs>>
  \/ reading = "closed" /\ (l = "bsig" \/ sigs # <<>>) /\ ReadAfter(l)
  \/ reading = "garbage" /\ reading' = (IF l = "bsig" THEN "refused" ELSE reading) /\ UNCHANGED <<content, sigs>>
  \/ reading = "open" /\ ReadSignature(l)

ReadLine(l) ==
  /\ Len(lines) < (IF reading \in {"unsigned", "garbage"} THEN MaxUnsigned ELSE MaxLines)
  /\ l \in Text => Cardinality({i \in 1..Len(lines) : lines[i] \in Text}) < MaxText
  /\ unchecked = <<>> /\ answer = ""
  /\ lines' = Append(lines, l)
  /\ \/ signature = "detached" /\ ReadDetached(l)
     \/ /\ signature = "clear"
        /\ \/ reading = "start" /\ ReadStart(l)
           \/ reading = "unsigned" /\ ReadUnsigned(l)
           \/ reading = "armor" /\ ReadArmor(l)
           \/ reading = "message" /\ ReadMessage(l)
           \/ reading = "open" /\ ReadSignature(l)
           \/ reading = "closed" /\ ReadAfter(l)
  /\ UNCHANGED <<signature, signedby, out, unchecked, Signers, gpgerror, answer>>

(* The end of the file. gpgv is run on a well formed file only; the others *)
(* end with an error on the status channel, or with NODATA for a detached  *)
(* file in which there is no signature.                                    *)
Closed == reading = "closed" /\ (signature = "clear" \/ sigs # <<>>)
EndOfFile ==
  /\ unchecked = <<>> /\ answer = "" /\ out = <<>> /\ lines # <<>>
  /\ IF Closed THEN unchecked' = <<"run">> \o sigs /\ UNCHANGED gpgerror
     ELSE unchecked' = <<"exited">> /\ gpgerror' = (signature = "clear" \/ reading \in {"refused", "open"})
  /\ UNCHANGED <<signature, signedby, lines, reading, content, sigs, out, Signers, answer>>

-----------------------------------------------------------------------------
(* ExecGPGV: the key files named by Signed-By or else all the trusted      *)
(* ones, less the ones that cannot be used.                                *)
Keyrings == (IF signedby.files # {} THEN signedby.files ELSE TrustedParts) \ Unusable
Keys == UNION {Keyring[f] : f \in Keyrings}

(* What gpgv prints for a signature. *)
Status(w, s) == [word |-> w, key |-> s.key, digest |-> s.digest, algo |-> s.algo]
StatusLines(s) ==
  LET Report(w) == <<Status(w, s), Status("VALIDSIG", s), Status("ASSERT_PUBKEY_ALGO", s)>>
  IN CASE Primary[s.key] \notin Keys -> <<Status("ERRSIG", s), Status("NO_PUBKEY", s)>>
       [] ~s.right -> <<Status("BADSIG", s)>>
       [] s.state # "good" -> Report(s.state)
       [] OTHER -> Report("GOODSIG")

CheckNext ==
  /\ out = <<>> /\ Len(unchecked) > 1
  /\ out' = StatusLines(Sig[unchecked[2]])
  /\ unchecked' = <<"run">> \o SubSeq(unchecked, 3, Len(unchecked))
  /\ UNCHANGED <<signature, signedby, lines, reading, content, sigs, Signers, gpgerror, answer>>

(* gpgv ends, or it is killed or fails, which ExecGPGV reports.            *)
GpgvExits ==
  /\ out = <<>> /\ unchecked # <<>> /\ unchecked[1] = "run" /\ answer = ""
  /\ \/ Len(unchecked) = 1 /\ UNCHANGED gpgerror
     \/ gpgerror' = TRUE
  /\ unchecked' = <<"exited">>
  /\ UNCHANGED <<signature, signedby, lines, reading, content, sigs, out, Signers, answer>>

(* VerifyGetSigners, one status line. An untrusted digest or algorithm     *)
(* makes good signatures of the key before it worthless.                   *)
\* mutant: a worthless signature stays in the list of the good ones
Worthless_Kept(S, k) == [S EXCEPT !.Worthless = @ \cup {k}]
MakeWorthless(S, k) == [S EXCEPT !.Worthless = @ \cup {k}, !.Good = SelectSeq(@, LAMBDA g : g # k)]

ValidSig(S, l) ==
  [(IF l.digest \in Untrusted THEN MakeWorthless(S, l.key) ELSE S) EXCEPT
     !.Valid = @ \cup {l.key},
     !.Sub = IF Primary[l.key] # l.key THEN @ \cup {<<Primary[l.key], l.key>>} ELSE @]

Pushed(S, l) ==
  CASE l.word = "BADSIG" -> [S EXCEPT !.Bad = @ \cup {l.key}]
    [] l.word = "NO_PUBKEY" -> [S EXCEPT !.NoPubKey = @ \cup {l.key}]
    [] l.word \in {"EXPKEYSIG", "EXPSIG", "REVKEYSIG"} -> [S EXCEPT !.Worthless = @ \cup {l.key}]
    [] l.word = "ASSERT_PUBKEY_ALGO" -> IF l.algo \in Asserted THEN S ELSE MakeWorthless(S, l.key)
    [] l.word = "GOODSIG" -> [S EXCEPT !.Good = Append(@, l.key)]
    [] l.word = "VALIDSIG" -> ValidSig(S, l)
    [] OTHER -> S

ReadStatus ==
  /\ out # <<>>
  /\ Signers' = Pushed(Signers, Head(out)) /\ out' = Tail(out)
  /\ UNCHANGED <<signature, signedby, lines, reading, content, sigs, unchecked, gpgerror, answer>>

(* The good signatures are limited to the fingerprints of Signed-By, which *)
(* name a key, or a key and all its subkeys if they are not exact.         *)
Allowed(S, l, good) ==
  \/ l.key = good /\ l.key \in S.Valid
  \/ l.key # good /\ ~l.exact /\ <<l.key, good>> \in S.Sub /\ good \in S.Valid

Names(S, l, good) == IF l.key = good THEN {<<l.key, "!">>} ELSE {<<l.key, "">>, <<good, "!">>}

(* For each good signature the first fingerprint that allows it. *)
FirstMatch(S, good) == SelectInSeq(signedby.fpts, LAMBDA l : Allowed(S, l, good))
LimitedToFpts(S) ==
  LET found == {g \in ToSet(S.Good) : FirstMatch(S, g) # 0}
  IN [S EXCEPT !.Good = SelectSeq(@, LAMBDA g : g \in found),
               !.NoPubKey = @ \cup (ToSet(S.Good) \ found),
               !.SignedBy = UNION {Names(S, signedby.fpts[FirstMatch(S, g)], g) : g \in found}]

AllSigners(S) ==
  LET both == S.Valid \cap ToSet(S.Good)
  IN [S EXCEPT !.SignedBy = {<<v, "!">> : v \in both} \cup {<<p[1], "">> : p \in {q \in S.Sub : q[2] \in both}}]

(* The end of VerifyGetSigners and the answer of URIAcquire: a file with a *)
(* good signature and no bad one is fine, whatever the exit code was and   *)
(* however many of the other keys are unknown.                             *)
Finish ==
  /\ out = <<>> /\ unchecked = <<"exited">> /\ answer = ""
  /\ \E S \in {IF signedby.fpts # <<>> THEN LimitedToFpts(Signers) ELSE AllSigners(Signers)} :
       /\ Signers' = S
       /\ answer' = IF gpgerror \/ S.Good = <<>> \/ S.Bad # {} THEN "400 URI Failure" ELSE "201 URI Done"
  /\ UNCHANGED <<signature, signedby, lines, reading, content, sigs, out, unchecked, gpgerror>>

Next ==
  \/ \E l \in {"begin", "bsig", "esig", "escaped", "dash", "empty", "text"} : ReadLine(l)
  \/ reading = "open" /\ Last(lines) = "bsig" /\ \E s \in Sigs : ReadLine(s)
  \/ EndOfFile \/ CheckNext \/ GpgvExits \/ ReadStatus \/ Finish

Spec == Init /\ [][Next]_gpvars

-----------------------------------------------------------------------------
Made == {Sig[n] : n \in ToSet(sigs)}

(* A signature that should make the file acceptable: right, neither weak   *)
(* nor expired, of a key in the keyrings to be used, and of one of the     *)
(* fingerprints if Signed-By names some.                                   *)
Trustworthy(s) ==
  /\ s.right /\ s.state = "good" /\ s.digest \notin Untrusted /\ s.algo \in Asserted
  /\ Primary[s.key] \in Keys
  /\ signedby.fpts # <<>> =>
       \E l \in ToSet(signedby.fpts) : l.key = s.key \/ (~l.exact /\ l.key = Primary[s.key])

(* The method accepts a file only if a trustworthy signature is in it and  *)
(* no wrong one, in whatever order weak, expired and good signatures of    *)
(* the same keys come, however gpgv ended; every key it reports as signer  *)
(* has made such a signature or is the primary key of one that has; and    *)
(* every line of an accepted InRelease file is armor, signature or part of *)
(* the content that was checked. A file is read as unsigned only if no     *)
(* signed message begins in it.                                            *)
AcceptedIsSigned ==
  /\ answer = "201 URI Done" =>
       /\ \E s \in Made : Trustworthy(s)
       /\ \A s \in Made : s.right \/ Primary[s.key] \notin Keys
       /\ \A n \in Signers.SignedBy : \E s \in Made :
            Trustworthy(s) /\ n[1] \in (IF n[2] = "!" THEN {s.key} ELSE {Primary[s.key]})
       /\ signature = "clear" =>
            \E a, b \in 1..Len(lines) :
              /\ lines[1] = "begin" /\ lines[a] = "empty" /\ lines[b] = "bsig"
              /\ content = SubSeq(lines, a + 1, b - 1)
              /\ \A i \in b..Len(lines) : lines[i] = "text" \/ lines[i] \in Sigs =>
                   \E j \in b..i - 1 : lines[j] = "bsig" /\ "esig" \notin ToSet(SubSeq(lines, j, i))
  /\ signature = "clear" /\ reading = "unsigned" => "begin" \notin ToSet(lines)
=============================================================================
