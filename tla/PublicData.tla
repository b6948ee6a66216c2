------------------------------- MODULE PublicData -------------------------------
(***************************************************************************)
(* The public corpora: prepare_public_validation.py brings a cache up to   *)
(* datasets.lock.json and seals what the lock cannot pin, the hosted       *)
(* bootstrap takes pinned archives instead, the builders of the three      *)
(* public corpora verify the cache and read it, and                        *)
(* public_candidate_pair.py compares two reports about a corpus.           *)
(* A lock's revision, a file's content and its digest are one version; a   *)
(* checksum index is what it says of each file.  One command runs at a     *)
(* time on a data root; it may die at every step, and between commands the *)
(* lock and the files change.                                              *)
(***************************************************************************)
EXTENDS Integers, FiniteSets, Sequences

CONSTANTS None, Versions,
          MaxRegression,        \* of the one metric of a report
          Metric,               \* its values: a set of numbers
          MaxChanges, MaxDeaths \* bounds: changes between commands, commands that die

VARIABLES lock,                 \* datasets.lock.json: its revision, which pins both checkouts
          aec, audio,           \* the AEC checkout's HEAD, and how much of its audio is there
          dns, data,            \* the DNS checkout's HEAD; datasets_fullband
          slr, index,           \* the SLR28 archive; the checksum indices, upstream's and the derived
          seal,                 \* datasets.seal.json
          pc, profile,          \* the command that runs
          ready,                \* github-hosted-cache.json
          baseline, corpus,     \* what the baseline's and the candidate's reports are about: a corpus.json
          changes, deaths
cache == <<aec, audio, dns, data, slr, index, seal>>
command == <<pc, profile, ready>>
results == <<baseline, corpus>>
vars == <<lock, cache, command, results, changes, deaths>>

PublicAssumption == Metric \subseteq Int /\ MaxRegression \in Int
\* The DNS recordings: the clean speech and the noise of the hosted archives, clean speech under
\* names those do not have, and the noisy ones of the oldest builder's pairs.
Files == {"clean", "noise", "stray", "noisy"}
NoSeal == [lock |-> None, slr |-> None, index |-> None]
Init ==
    /\ lock = CHOOSE v \in Versions : TRUE   \* versions are interchangeable
    /\ aec = None /\ audio = "pointers" /\ dns = None /\ slr = None
    /\ index = [upstream |-> None, derived |-> None]
    /\ \E v \in Versions \cup {None} : data = [f \in Files |-> v]   \* the caller brings the DNS files
    /\ seal = NoSeal
    /\ pc = "idle" /\ profile = None /\ ready = None
    /\ baseline = None /\ corpus = None
    /\ changes = 0 /\ deaths = 0

Goto(p) == pc' = p /\ UNCHANGED profile
End == pc' = "idle" /\ profile' = None
Quiet == ready' = None
Rest == UNCHANGED <<lock, results, changes, deaths>>

(***************************************************************************)
(* prepare: the AEC checkout, SLR28 and its seal, for the full profile the *)
(* DNS checkout and its index and seal, and the verification.              *)
(***************************************************************************)
Start(p, command1) ==
    /\ pc = "idle" /\ corpus = None /\ pc' = command1 /\ profile' = p
    /\ Quiet /\ UNCHANGED cache /\ Rest
PrepareAec ==
    /\ pc = "aec" /\ aec' = lock /\ audio' = "all" /\ Goto("slr")
    /\ Quiet /\ UNCHANGED <<dns, data, slr, index, seal>> /\ Rest
\* What is there is not fetched again.
PrepareSlr(allowed) ==
    /\ pc = "slr" /\ Quiet /\ UNCHANGED <<aec, audio, dns, data, index, seal>> /\ Rest
    /\ \/ slr # None /\ Goto("seal slr") /\ UNCHANGED slr
       \/ slr = None /\ ~allowed /\ End /\ UNCHANGED slr
       \/ slr = None /\ allowed /\ Goto("seal slr") /\ slr' \in Versions
\* seal_asset: the whole seal is bound to the lock of now, the entries it had before too.
Sealed(what, v) == seal' = [seal EXCEPT !.lock = lock, ![what] = v]
SealSlr ==
    /\ pc = "seal slr" /\ Sealed("slr", slr) /\ Goto(IF profile = "full" THEN "dns" ELSE "verify")
    /\ Quiet /\ UNCHANGED <<aec, audio, dns, data, slr, index>> /\ Rest
PrepareDns ==
    /\ pc = "dns" /\ dns' = lock /\ Goto("index")
    /\ Quiet /\ UNCHANGED <<aec, audio, data, slr, index, seal>> /\ Rest
\* What the seal says of an index: which file, and what was in it.
Content(file) == [file |-> file, of |-> index[file]]
UpstreamIndex(v) == [f \in Files |-> v]
PrepareIndex ==
    /\ pc = "index" /\ Goto("seal index")
    /\ \/ index.upstream # None /\ UNCHANGED index
       \/ index.upstream = None /\ \E v \in Versions : index' = [index EXCEPT !.upstream = UpstreamIndex(v)]
    /\ Quiet /\ UNCHANGED <<aec, audio, dns, data, slr, seal>> /\ Rest
SealIndex ==
    /\ pc = "seal index" /\ Sealed("index", Content("upstream")) /\ Goto("verify")
    /\ Quiet /\ UNCHANGED <<aec, audio, dns, data, slr, index>> /\ Rest
\* Only the first recordings of each directory are looked at.
AecThere == aec = lock /\ audio # "pointers"
\* Mutant of SlrSealed: what the seal names need only be there.
SlrThere == seal.slr # None /\ slr # None
SlrSealed == seal.slr # None /\ slr = seal.slr
DnsSealed == dns = lock /\ seal.index # None /\ seal.index = Content(seal.index.file)
Verifies(p) ==
    /\ seal.lock = lock /\ AecThere /\ SlrSealed
    /\ p = "full" => DnsSealed /\ (data["clean"] # None \/ data["stray"] # None) /\ data["noise"] # None
\* dataset_lock.py verify_local: DNS is a git dataset of the lock, so its checkout is looked at, and
\* its index, whose sealing is the integrity mode the lock gives it, is not.
VerifiesLocally == seal.lock = lock /\ AecThere /\ SlrSealed /\ dns = lock
\* The last step only tells the caller whether the cache verifies: each builder looks again.
Verify == pc = "verify" /\ End /\ Quiet /\ UNCHANGED cache /\ Rest

(***************************************************************************)
(* The hosted bootstrap: every download is held against a lock of its own, *)
(* which must pin the same DNS revision; the index is derived from what    *)
(* was unpacked.                                                           *)
(***************************************************************************)
BootstrapAec ==
    /\ pc = "b aec" /\ aec' = lock /\ audio' = "all" /\ Goto("b slr")
    /\ Quiet /\ UNCHANGED <<dns, data, slr, index, seal>> /\ Rest
Pinned(v) == v = lock
BootstrapSlr ==
    /\ pc = "b slr" /\ Quiet /\ UNCHANGED <<aec, audio, dns, data, index>> /\ Rest
    /\ slr' \in Versions
    /\ IF Pinned(slr') THEN Sealed("slr", slr') /\ Goto("b dns") ELSE End /\ UNCHANGED seal
BootstrapDns ==
    /\ pc = "b dns" /\ dns' = lock /\ Goto("b clean")
    /\ Quiet /\ UNCHANGED <<aec, audio, data, slr, index, seal>> /\ Rest
\* An unpacked file must be the same as one of its name that is there already.  What is there
\* under another name is not looked at, and stays.
BootstrapArchive(step, f, next) ==
    /\ pc = step /\ Quiet /\ UNCHANGED <<aec, audio, dns, slr, index, seal>> /\ Rest
    /\ \E v \in Versions :
          IF Pinned(v) /\ data[f] \in {None, v} THEN data' = [data EXCEPT ![f] = v] /\ Goto(next)
          ELSE End /\ UNCHANGED data
BootstrapIndex ==
    /\ pc = "b index" /\ index' = [index EXCEPT !.derived = data]
    /\ seal' = [seal EXCEPT !.index = [file |-> "derived", of |-> data]] /\ Goto("b verify")
    /\ Quiet /\ UNCHANGED <<aec, audio, dns, data, slr>> /\ Rest
BootstrapVerify ==
    /\ pc = "b verify" /\ End /\ UNCHANGED cache /\ Rest
    /\ ready' = IF Verifies("full") THEN [lock |-> lock, slr |-> slr, data |-> data, index |-> seal.index.of]
                ELSE None

(***************************************************************************)
(* Between commands; and a command that dies.                              *)
(***************************************************************************)
Change ==
    /\ pc = "idle" /\ corpus = None /\ changes < MaxChanges /\ changes' = changes + 1
    /\ \/ lock' \in Versions \ {lock} /\ UNCHANGED <<cache>>
       \/ \E v \in Versions, what \in {"slr", "index"} :       \* fetch_public_data.py fetches again
             /\ slr' = (IF what = "slr" THEN v ELSE slr)
             /\ index' = (IF what = "index" THEN [index EXCEPT !.upstream = UpstreamIndex(v)] ELSE index)
             /\ UNCHANGED <<lock, aec, audio, dns, data, seal>>
       \/ \E f \in Files, v \in Versions \cup {None} : data' = [data EXCEPT ![f] = v]
          /\ UNCHANGED <<lock, aec, audio, dns, slr, index, seal>>
       \/ aec' \in Versions /\ audio' \in {"pointers", "first"}  \* a checkout by hand
          /\ UNCHANGED <<lock, dns, data, slr, index, seal>>
    /\ Quiet /\ UNCHANGED <<pc, profile, results, deaths>>
Die ==
    /\ pc # "idle" /\ deaths < MaxDeaths /\ deaths' = deaths + 1 /\ End /\ Quiet
    /\ IF pc \in {"aec", "b aec"} THEN aec' = lock /\ audio' \in {"pointers", "first"}
       ELSE UNCHANGED <<aec, audio>>
    /\ UNCHANGED <<lock, dns, data, slr, index, seal, results, changes>>

(***************************************************************************)
(* The builders.  A corpus is evaluated when it is built: the first one    *)
(* for the baseline, the second for the candidate it is compared with.     *)
(***************************************************************************)
\* What of DNS a builder mixes: the full one all clean speech and noise it finds, the oldest pairs of
\* noisy and clean.
Mixed(b) == CASE b = "full" -> {f \in {"clean", "stray", "noise"} : data[f] # None}
              [] b = "public" /\ data["noisy"] # None /\ data["clean"] # None -> {"clean", "noisy"}
              [] OTHER -> {}
\* verify_dns_file: every recording that is used must be what the sealed index says of it.
Attested(f) == data[f] # None /\ data[f] = index[seal.index.file][f]
\* Recordings of the pairs that were never fetched end the build.
FromAec == audio = "all"
FromDns(b) == [f \in Mixed(b) |-> data[f]]
\* Rooms are mixed into what is clean; the oldest builder takes that from its DNS pairs.
FromSlr(b) == IF b = "public" /\ Mixed(b) = {} THEN None ELSE slr
Corpus(b) == [by |-> b, lock |-> lock, seal |-> seal, aec |-> aec, slr |-> FromSlr(b), data |-> FromDns(b)]
Written(b) ==
    /\ corpus = None /\ \A f \in Mixed(b) : Attested(f)
    /\ \/ baseline = None /\ baseline' = Corpus(b) /\ UNCHANGED corpus
       \/ baseline # None /\ corpus' = Corpus(b) /\ UNCHANGED baseline
    /\ UNCHANGED <<lock, cache, command, changes, deaths>>
BuildFull == pc = "idle" /\ Verifies("full") /\ FromAec /\ Written("full")
BuildCompact == pc = "idle" /\ Verifies("compact") /\ FromAec /\ Written("compact")
BuildPublic == pc = "idle" /\ VerifiesLocally /\ seal.index # None /\ FromAec /\ Written("public")
\* Mutant of SameIdentity: only the name of the corpus is compared.
SameCorpusId(b, c) == b.by = c.by
\* compare_report_identity: the corpus, the policy, the source and every binding but the processor's.
SameIdentity(b, c) == b = c
\* relative_summary and classify, for a metric and the gates on single cases.
Decision(b, c, bm, cm, gate) ==
    IF ~SameIdentity(b, c) \/ ~(bm = None <=> cm = None) \/ gate = "incomplete" THEN "incomplete"
    ELSE IF (bm # None /\ bm - cm > MaxRegression) \/ gate = "regressed" THEN "rejected"
    ELSE "qualified"

Next ==
    \/ \E p \in {"compact", "full"}, c \in {"aec", "verify"} : Start(p, c)
    \/ Start("full", "b aec")
    \/ PrepareAec \/ \E allowed \in BOOLEAN : PrepareSlr(allowed)
    \/ SealSlr \/ PrepareDns \/ PrepareIndex \/ SealIndex \/ Verify
    \/ BootstrapAec \/ BootstrapSlr \/ BootstrapDns
    \/ BootstrapArchive("b clean", "clean", "b noise")
    \/ BootstrapArchive("b noise", "noise", "b index")
    \/ BootstrapIndex \/ BootstrapVerify
    \/ Change \/ Die
    \/ BuildFull \/ BuildCompact \/ BuildPublic
Spec == Init /\ [][Next]_vars

(***************************************************************************)
(* Properties                                                              *)
(***************************************************************************)
Built == {baseline, corpus} \ {None}
\* A corpus is made of the revision its lock names and of what its seal names, file by file, whatever
\* was fetched again, checked out by hand, left by a command that died or sealed under another lock.
\* For the DNS files of the oldest builder see IndexSealed.
CorpusSealed ==
    \A c \in Built :
        /\ c.aec = c.lock /\ c.slr \in {None, c.seal.slr} /\ c.lock = c.seal.lock
        /\ c.by # "public" => c.data = [f \in DOMAIN c.data |-> c.seal.index.of[f]]
\* A hosted cache is READY only if all it downloaded is what the lock pins: whatever a data root that
\* was used before held under those names, it was the same.  Recordings under other names are left in the
\* tree and counted, and nothing pins them; of those READY says no more than that the index it seals is of
\* the tree as it was found, against which a builder holds what it reads.
ReadyPinned ==
    ready # None => /\ ready.slr = ready.lock /\ \A f \in {"clean", "noise"} : ready.data[f] = ready.lock
                    /\ ready.index = ready.data
\* A candidate is qualified against a baseline measured on the same recordings and no worse than the
\* bound frozen for the metric; what one report lacks is never taken for a result.
PairSound ==
    corpus # None /\ baseline # None =>
        \A bm, cm \in Metric \cup {None}, gate \in {"passed", "regressed", "incomplete"} :
            Decision(baseline, corpus, bm, cm, gate) = "qualified" =>
                /\ [f \in {"aec", "slr", "data"} |-> baseline[f]] = [f \in {"aec", "slr", "data"} |-> corpus[f]]
                /\ gate = "passed" /\ (bm = None <=> cm = None) /\ (bm # None => cm >= bm - MaxRegression)
PublicDataBound == CorpusSealed /\ ReadyPinned /\ PairSound
\* CHANGELOG.md: "require local SHA-256 sealing/checksum-index verification before public data can
\* contribute to validation-grade evidence", and verify_local: "validation-grade requires sealed
\* upstream checksum index".
IndexSealed == \A c \in Built : \A f \in DOMAIN c.data : c.data[f] = c.seal.index.of[f]
=============================================================================
