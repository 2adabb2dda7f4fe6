----------------------------- MODULE ResearchData -----------------------------
(***************************************************************************)
(* The back-test jobs of routes/backtest.py and the data they run on:      *)
(* backtest/data_fetcher.py and the content-addressed cache of             *)
(* backtest/dataset_cache.py.                                              *)
(*                                                                         *)
(* A job takes its requests one after the other.  Where the cache has a    *)
(* reference for a request, the manifest and the object it names are read  *)
(* and compared, without an await; else the provider is asked range by     *)
(* range, while other jobs do the same and the provider revises its data,  *)
(* and what it gave is published by three writes, the reference last: with *)
(* no await between them either, but the process may die there, and then   *)
(* its jobs are lost while the files stay.                                 *)
(*                                                                         *)
(* A file is named by the hash of what is in it, so an object and its      *)
(* content, a manifest and its fields, are one thing here; a file that is  *)
(* no longer what its name says is refused like one that is not there.     *)
(***************************************************************************)
EXTENDS Naturals, Sequences

CONSTANTS
    Jobs,
    DatasetRequests,    \* symbol, dates, interval, universe: what identifies a
                        \* dataset
    RequestsOf,     \* of a job: one, or one per ticker of a portfolio
    DateRanges,     \* of dates the provider is asked for, one by one
    MaxVersion,     \* how often the provider's data differ
    MaxDamages,
    NoReference

ASSUME JobsHaveRequests ==
    /\ RequestsOf \in [Jobs -> Seq(DatasetRequests)] /\ \A j \in Jobs : RequestsOf[j] # <<>>
    /\ DateRanges \in Nat \ {0} /\ MaxVersion \in Nat \ {0} /\ MaxDamages \in Nat

VARIABLES
    provider,       \* the version of the data it gives out
    objects,        \* the contents on disk
    manifests,      \* the manifests on disk
    request_refs,   \* the reference of each request
    jobs,           \* _jobs and _portfolio_jobs, with where each task is
    retrieved,      \* what was retrieved completely (history)
    damages         \* files lost or altered from outside (history)

research_vars == <<provider, objects, manifests, request_refs, jobs, retrieved, damages>>

(* The version of each range; 0 where there is no bar of a session.         *)
Contents == [1 .. DateRanges -> 0 .. MaxVersion]

(* One per publication: the time of the retrieval is in it.                 *)
Manifests == [request : DatasetRequests, content : Contents, by : Jobs]
References == [request_id : DatasetRequests, manifest : Manifests, content : Contents]

Job(status, stage) ==
    [status |-> status, stage |-> stage, pages |-> <<>>, written |-> 0, used |-> <<>>,
     datasets |-> <<>>]

ResearchInit ==
    /\ provider = 1
    /\ objects = {} /\ manifests = {}
    /\ request_refs = [r \in DatasetRequests |-> NoReference]
    /\ jobs = [j \in Jobs |-> Job("none", "none")]
    /\ retrieved = {}
    /\ damages = 0

JobAt(j, stage) == jobs[j].status = "running" /\ jobs[j].stage = stage

Wanted(j) == RequestsOf[j][Len(jobs[j].datasets) + 1]

(***************************************************************************)
(* The jobs.                                                               *)
(***************************************************************************)
(* run_backtest and run_portfolio_backtest: a new id.                      *)
StartJob(j) ==
    /\ jobs[j].status = "none"
    /\ jobs' = [jobs EXCEPT ![j] = Job("running", "asking")]
    /\ UNCHANGED <<provider, objects, manifests, request_refs, retrieved, damages>>

(* A handle comes back: its bars are used and its manifest is reported.     *)
Served(j, manifest, content) ==
    LET used == Append(jobs[j].used, content)
        datasets == Append(jobs[j].datasets, manifest)
    IN  jobs' = [jobs EXCEPT ![j] =
            [status |-> "running",
             stage |-> IF Len(datasets) = Len(RequestsOf[j]) THEN "testing" ELSE "asking",
             pages |-> <<>>, written |-> 0, used |-> used, datasets |-> datasets]]

(* With a result, or a portfolio's without one for want of evidence.        *)
CompleteJob(j) ==
    /\ JobAt(j, "testing")
    /\ jobs' = [jobs EXCEPT ![j].status = "complete", ![j].stage = "none"]
    /\ UNCHANGED <<provider, objects, manifests, request_refs, retrieved, damages>>

(* Too few bars, a file or an answer that is refused, an invalid bar, a     *)
(* write or a back-test that fails.                                        *)
FailJob(j) ==
    /\ jobs[j].status = "running"
    /\ jobs' = [jobs EXCEPT ![j] = Job("error", "none")]
    /\ UNCHANGED <<provider, objects, manifests, request_refs, retrieved, damages>>

(***************************************************************************)
(* ImmutableDatasetCache.load.                                             *)
(***************************************************************************)
(* A mutant of ManifestMatches: only the request is compared.               *)
OnlyTheRequest(j, reference) == reference.manifest.request = Wanted(j)

(* The manifest is of this request and of the object the reference names.   *)
ManifestMatches(j, reference) ==
    reference.manifest.request = Wanted(j) /\ reference.manifest.content = reference.content

(* A reference whose files do not bear it out is refused, and the job fails. *)
LoadDataset(j) ==
    /\ JobAt(j, "asking")
    /\ LET reference == request_refs[Wanted(j)]
       IN  /\ reference # NoReference
           /\ reference.request_id = Wanted(j)
           /\ reference.manifest \in manifests /\ reference.content \in objects
           /\ ManifestMatches(j, reference)
           /\ Served(j, reference.manifest, reference.content)
    /\ UNCHANGED <<provider, objects, manifests, request_refs, retrieved, damages>>

(***************************************************************************)
(* The provider, and ImmutableDatasetCache.publish.                        *)
(***************************************************************************)
Publication(j) == [request |-> Wanted(j), content |-> jobs[j].pages, by |-> j]

(* Only where there is no reference.                                       *)
AskProvider(j) ==
    /\ JobAt(j, "asking")
    /\ request_refs[Wanted(j)] = NoReference
    /\ jobs' = [jobs EXCEPT ![j].stage = "fetching"]
    /\ UNCHANGED <<provider, objects, manifests, request_refs, retrieved, damages>>

(* One range: its bars, of which none may be of an expected session.        *)
FetchRange(j, page) ==
    /\ JobAt(j, "fetching")
    /\ Len(jobs[j].pages) < DateRanges
    /\ page \in {0, provider}
    /\ jobs' = [jobs EXCEPT ![j].pages = Append(@, page)]
    /\ UNCHANGED <<provider, objects, manifests, request_refs, retrieved, damages>>

(* An empty dataset is never published.                                    *)
PublishDataset(j) ==
    /\ JobAt(j, "fetching")
    /\ Len(jobs[j].pages) = DateRanges
    /\ \E i \in 1 .. DateRanges : jobs[j].pages[i] # 0
    /\ jobs' = [jobs EXCEPT ![j].stage = "writing"]
    /\ retrieved' = retrieved \union {Publication(j)}
    /\ UNCHANGED <<provider, objects, manifests, request_refs, damages>>

(* A mutant of WriteOrder: the request is marked first.                     *)
ReferenceFirst == <<"reference", "object", "manifest">>

WriteOrder == <<"object", "manifest", "reference">>

(* _atomic_write puts the file in place whole or not at all.                *)
WriteFile(j) ==
    /\ JobAt(j, "writing")
    /\ LET file == WriteOrder[jobs[j].written + 1]
           made == Publication(j)
       IN  /\ objects' = IF file = "object" THEN objects \union {made.content} ELSE objects
           /\ manifests' = IF file = "manifest" THEN manifests \union {made} ELSE manifests
           /\ request_refs' =
                IF file = "reference"
                THEN [request_refs EXCEPT ![made.request] =
                        [request_id |-> made.request, manifest |-> made,
                         content |-> made.content]]
                ELSE request_refs
           /\ IF jobs[j].written = 2 THEN Served(j, made, made.content)
              ELSE jobs' = [jobs EXCEPT ![j].written = @ + 1]
    /\ UNCHANGED <<provider, retrieved, damages>>

(***************************************************************************)
(* The surroundings.                                                       *)
(***************************************************************************)
(* The jobs are kept in memory; the files may go with their container.      *)
ProcessDies(wiped) ==
    /\ jobs' = [j \in Jobs |-> IF jobs[j].status = "none" THEN jobs[j] ELSE Job("lost", "none")]
    /\ jobs' # jobs
    /\ IF wiped
       THEN /\ objects' = {} /\ manifests' = {}
            /\ request_refs' = [r \in DatasetRequests |-> NoReference]
       ELSE UNCHANGED <<objects, manifests, request_refs>>
    /\ UNCHANGED <<provider, retrieved, damages>>

Revise ==
    /\ provider < MaxVersion
    /\ provider' = provider + 1
    /\ UNCHANGED <<objects, manifests, request_refs, jobs, retrieved, damages>>

LoseFile(content, manifest) ==
    /\ damages < MaxDamages
    /\ damages' = damages + 1
    /\ objects' = objects \ content /\ manifests' = manifests \ manifest
    /\ UNCHANGED <<provider, request_refs, jobs, retrieved>>

(* A reference rewired to what others name: it is named by its request, not *)
(* by its content.                                                         *)
Rewire(r, request_id, manifest, content) ==
    /\ damages < MaxDamages
    /\ damages' = damages + 1
    /\ request_refs' = [request_refs EXCEPT ![r] =
          [request_id |-> request_id, manifest |-> manifest, content |-> content]]
    /\ UNCHANGED <<provider, objects, manifests, jobs, retrieved>>

ResearchNext ==
    \/ \E j \in Jobs :
          \/ StartJob(j) \/ CompleteJob(j) \/ FailJob(j)
          \/ LoadDataset(j) \/ AskProvider(j)
          \/ \E page \in 0 .. MaxVersion : FetchRange(j, page)
          \/ PublishDataset(j) \/ WriteFile(j)
    \/ \E wiped \in BOOLEAN : ProcessDies(wiped)
    \/ \E content \in objects : LoseFile({content}, {})
    \/ \E manifest \in manifests : LoseFile({}, {manifest})
    \/ \E r, request_id \in DatasetRequests, manifest \in manifests, content \in objects :
          Rewire(r, request_id, manifest, content)
    \/ Revise

ResearchSpec == ResearchInit /\ [][ResearchNext]_research_vars

(***************************************************************************)
(* Properties.                                                             *)
(***************************************************************************)
JobRecords ==
    [status : {"none", "running", "complete", "error", "lost"},
     stage : {"none", "asking", "fetching", "writing", "testing"},
     pages : Seq(0 .. MaxVersion), written : 0 .. 2,
     used : Seq(Contents), datasets : Seq(Manifests)]

(* The type invariant.                                                     *)
ResearchTypeOK ==
    /\ provider \in 1 .. MaxVersion
    /\ objects \subseteq Contents /\ manifests \subseteq Manifests
    /\ request_refs \in [DatasetRequests -> References \union {NoReference}]
    /\ jobs \in [Jobs -> JobRecords]
    /\ retrieved \subseteq Manifests
    /\ damages \in 0 .. MaxDamages

(* Whatever happens to the files, a job runs on data that were retrieved    *)
(* for its requests, every range of them, and names them in its report.     *)
RunsOnWhatItReports ==
    \A j \in Jobs :
        /\ jobs[j].status = "complete" => Len(jobs[j].datasets) = Len(RequestsOf[j])
        /\ Len(jobs[j].used) = Len(jobs[j].datasets)
        /\ \A i \in DOMAIN jobs[j].datasets :
              LET manifest == jobs[j].datasets[i]
              IN  /\ manifest \in retrieved
                  /\ manifest.request = RequestsOf[j][i]
                  /\ manifest.content = jobs[j].used[i]

ManifestOf(r) == request_refs[r].manifest
OnDisk(manifest) == manifest \in manifests /\ manifest.content \in objects

(* A reference marks a whole publication, and what a job reports can be    *)
(* read again, wherever a process died and however publications overlap.    *)
EvidenceStays ==
    damages = 0 =>
        /\ \A r \in DatasetRequests : request_refs[r] # NoReference =>
              /\ request_refs[r].request_id = r /\ ManifestOf(r).request = r
              /\ OnDisk(ManifestOf(r)) /\ request_refs[r].content = ManifestOf(r).content
        /\ \A j \in Jobs : \A i \in DOMAIN jobs[j].datasets : OnDisk(jobs[j].datasets[i])

(* A back-test's evidence is what it ran on, and stays.                    *)
ResearchIsSound == ResearchTypeOK /\ RunsOnWhatItReports /\ EvidenceStays
=============================================================================
