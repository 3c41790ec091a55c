------------------------------- MODULE Settings -------------------------------
(***************************************************************************)
(* What the admin panel configures: the append-only tables scanner_settings *)
(* and org_settings, of which the latest row counts, the rotation of the CI *)
(* token, and the retention of scan records with the daily purge of main.py;*)
(* and a user's own row of user_llm_settings, saved from several tabs.     *)
(*                                                                         *)
(* A page posts some sections of a table, and the others are copied from    *)
(* the row that was the latest when the request read it, but for the        *)
(* advanced page, which copies nothing.  A section's value is the number of *)
(* the save that posted it (0: the default), and only the retention is also *)
(* kept as what it says.  The user's row is updated in place, and only the  *)
(* columns that differ from the row read are written.  Requests are cut     *)
(* between their SELECT and their commit, and rotations also at the flushed *)
(* revocation.                                                             *)
(***************************************************************************)
EXTENDS Naturals, Sequences, FiniteSetsExt

CONSTANTS
    Admins,    \* clients, with one request at a time each; they may be tabs of one
               \* person, who has a row of user_llm_settings
    OrgKeys,   \* encrypted keys of org_settings: two providers' and the Slack webhook
    Reports,   \* scan_records and ci_scan_records
    Days,      \* values report_retention_days is given; 0 keeps reports for ever
    MaxAge,    \* BOUND: days after which age is no longer counted
    MaxRows,   \* BOUND: rows of each of the append-only tables
    MaxSaves   \* BOUND: saves of all the tables together

ASSUME DaysAreShort == MaxAge \in Nat /\ Days \subseteq 0..(MaxAge - 1) /\ 0 \in Days
ASSUME SavesAreBounded == MaxSaves \in Nat

ScannerSections == {"gate", "scanner", "retention"}

Sections == [scanner |-> ScannerSections, org |-> OrgKeys \cup {"models"}]

Providers == {"anthropic", "google"}

VARIABLES
    rows,   \* the rows of the two settings tables, in order of id
    tokens, \* ci_tokens, in order of id
    llm,    \* the user's row of user_llm_settings
    posted, \* what the user's saves, in the order of their commits, posted last
    req,    \* the open request of each admin
    age,    \* days since a stored report's scan; Absent for one not stored
    loop    \* _report_retention_loop: asleep, or awake with what it has read

vars == <<rows, tokens, llm, posted, req, age, loop>>
own == <<llm, posted>>
purge == <<age, loop>>

(***************************************************************************)
(* Types.  A loop that ended would be a task nobody starts again before the *)
(* next restart; no step of this module ends it.                           *)
(***************************************************************************)
Absent == MaxAge + 1
Tables == DOMAIN Sections

\* base: the latest row, or token, there was when the request that inserted this
\* one read the table.
Row(table) == [from : [Sections[table] -> 0..MaxSaves], days : Days, base : 0..MaxSaves]
Token == [active : BOOLEAN, base : 0..MaxSaves]

\* A row of user_llm_settings, its key being the number of the key posted.
Own == [provider : Providers \cup {"none"}, key : 0..MaxSaves]

Request ==
    [pc : {"idle"}]
    \cup [pc : {"posting"}, read : Own]
    \cup [pc : {"saving"}, table : Tables, base : 0..MaxSaves]
    \cup [pc : {"rotating", "flushed"}, current : 0..MaxSaves, base : 0..MaxSaves]

TypeOK ==
    /\ \A t \in Tables : rows[t] \in Seq(Row(t))
    /\ tokens \in Seq(Token)
    /\ llm \in Own /\ posted \in Own
    /\ req \in [Admins -> Request]
    /\ age \in [Reports -> 0..Absent]
    /\ loop \in [pc : {"asleep", "awake", "ended"}] \cup [pc : {"purging"}, days : Days]

Idle == [pc |-> "idle"]

Init ==
    /\ rows = [t \in Tables |-> <<>>]
    /\ tokens = <<>>
    /\ llm = [provider |-> "none", key |-> 0]
    /\ posted = llm
    /\ req = [a \in Admins |-> Idle]
    /\ age = [r \in Reports |-> Absent]
    /\ loop = [pc |-> "awake"]

Saves == Len(rows.scanner) + Len(rows.org) + Len(tokens) + posted.key

-------------------------------------------------------------------------------
(***************************************************************************)
(* Settings pages                                                          *)
(***************************************************************************)

\* Mutant of Fields: the retention is not among the fields that are copied.
FieldsWithoutRetention(table, i) ==
    IF i = 0 THEN [from |-> [sec \in Sections[table] |-> 0], days |-> 0]
    ELSE [from |-> [sec \in Sections[table] |-> IF sec = "retention" THEN 0 ELSE rows[table][i].from[sec]],
          days |-> 0]

\* _load_scanner_fields, and the keys the organisation's form copies: row i's
\* values, or the defaults if there is no row.
Fields(table, i) ==
    IF i = 0 THEN [from |-> [sec \in Sections[table] |-> 0], days |-> 0]
    ELSE [from |-> rows[table][i].from, days |-> rows[table][i].days]

\* The SELECT of the latest row.
ReadLatest(a, table) ==
    /\ req[a].pc = "idle"
    /\ req' = [req EXCEPT ![a] = [pc |-> "saving", table |-> table, base |-> Len(rows[table])]]
    /\ UNCHANGED <<rows, tokens, own, purge>>

\* A row is inserted and committed with its audit event.
Insert(table, from, days, base) ==
    /\ Saves < MaxSaves /\ Len(rows[table]) < MaxRows
    /\ rows' = [rows EXCEPT ![table] = Append(@, [from |-> from, days |-> days, base |-> base])]
    /\ UNCHANGED <<tokens, own, purge>>

\* What the form posts is merged into the row that was read.
InsertRow(a, table, posts, days) ==
    /\ req[a].pc = "saving" /\ req[a].table = table
    /\ LET id == Len(rows[table]) + 1
           old == Fields(table, req[a].base)
       IN Insert(table, [sec \in Sections[table] |-> IF sec \in posts THEN id ELSE old.from[sec]],
                 IF "retention" \in posts THEN days ELSE old.days, req[a].base)
    /\ req' = [req EXCEPT ![a] = Idle]

\* The handler of the advanced form reads no row.  The page has no field for the
\* retention, and a retention that is not posted is written as the default.
AdvancedForm(a) ==
    /\ req[a].pc = "idle"
    /\ \E posts \in {{"gate", "scanner"}, ScannerSections}, days \in Days :
        LET id == Len(rows.scanner) + 1
        IN /\ "retention" \notin posts => days = 0
           /\ Insert("scanner", [sec \in ScannerSections |-> IF sec \in posts THEN id ELSE 0],
                     days, Len(rows.scanner))
    /\ UNCHANGED req

\* The other pages, by the sections they post.  A blank key of the organisation's
\* forms is not posted.
GatePage(a) == InsertRow(a, "scanner", {"gate"}, 0)
ScannerPage(a) == InsertRow(a, "scanner", {"scanner"}, 0)
MaintenancePage(a) == \E days \in Days : InsertRow(a, "scanner", {"retention"}, days)
OrgForm(a) == \E keys \in SUBSET OrgKeys : InsertRow(a, "org", keys \cup {"models"}, 0)
OrgPage(a) == \E keys \in SUBSET OrgKeys : InsertRow(a, "org", keys \cup {"models"}, 0)

\* Mutant of MayLockUser: the users row is not written before the SELECT.
MayLockUserAlways == TRUE

\* upsert_user stamps last_login_at, which the autoflush of the next SELECT writes:
\* the row in users is locked up to the end of the transaction.
MayLockUser == \A b \in Admins : req[b].pc # "posting"

\* portal_settings_post up to the SELECT of the user's row.
OpenUserForm(a) ==
    /\ req[a].pc = "idle" /\ MayLockUser
    /\ req' = [req EXCEPT ![a] = [pc |-> "posting", read |-> llm]]
    /\ UNCHANGED <<rows, tokens, own, purge>>

\* The rest of it: without a row a key is asked for, and a row that another
\* request inserted meanwhile answers 500; both abort.  The ORM writes a column
\* only if it differs from what was read; a key is encrypted anew each time.
UserForm(a) ==
    /\ req[a].pc = "posting"
    /\ \E provider \in Providers, blank \in BOOLEAN :
        LET read == req[a].read
            key == IF blank THEN posted.key ELSE posted.key + 1
        IN /\ read.provider = "none" => ~blank /\ llm.provider = "none"
           /\ ~blank => Saves < MaxSaves
           /\ posted' = [provider |-> provider, key |-> key]
           /\ llm' = [provider |-> IF provider = read.provider THEN llm.provider ELSE provider,
                      key |-> IF blank THEN llm.key ELSE key]
    /\ req' = [req EXCEPT ![a] = Idle]
    /\ UNCHANGED <<rows, tokens, purge>>

-------------------------------------------------------------------------------
(***************************************************************************)
(* Rotation of the CI token                                                *)
(***************************************************************************)
ActiveTokens == {i \in DOMAIN tokens : tokens[i].active}

\* Mutant of Current: the oldest active row.
OldestActive == IF ActiveTokens = {} THEN 0 ELSE Min(ActiveTokens)

\* MAX(id) WHERE revoked_at IS NULL, 0 without one.
Current == IF ActiveTokens = {} THEN 0 ELSE Max(ActiveTokens)

ReadCurrent(a) ==
    /\ req[a].pc = "idle"
    /\ req' = [req EXCEPT ![a] = [pc |-> "rotating", current |-> Current, base |-> Len(tokens)]]
    /\ UNCHANGED <<rows, tokens, own, purge>>

\* The UPDATE of the row read waits for another that holds it.
FlushRevocation(a) ==
    /\ req[a].pc = "rotating"
    /\ req[a].current # 0 =>
          \A b \in Admins : req[b].pc = "flushed" => req[b].current # req[a].current
    /\ req' = [req EXCEPT ![a].pc = "flushed"]
    /\ UNCHANGED <<rows, tokens, own, purge>>

InsertToken(a) ==
    /\ req[a].pc = "flushed" /\ Saves < MaxSaves
    /\ tokens' = Append([i \in DOMAIN tokens |->
                            IF i = req[a].current THEN [tokens[i] EXCEPT !.active = FALSE] ELSE tokens[i]],
                        [active |-> TRUE, base |-> req[a].base])
    /\ req' = [req EXCEPT ![a] = Idle]
    /\ UNCHANGED <<rows, own, purge>>

\* The request dies before its commit, or the database refuses it.
Abort(a) ==
    /\ req[a].pc # "idle"
    /\ req' = [req EXCEPT ![a] = Idle]
    /\ UNCHANGED <<rows, tokens, own, purge>>

-------------------------------------------------------------------------------
(***************************************************************************)
(* Scan records and their retention                                        *)
(***************************************************************************)
Record(r) ==
    /\ age[r] = Absent
    /\ age' = [age EXCEPT ![r] = 0]
    /\ UNCHANGED <<rows, tokens, own, req, loop>>

Delete(some) ==
    /\ some # {} /\ \A r \in some : age[r] # Absent
    /\ age' = [r \in Reports |-> IF r \in some THEN Absent ELSE age[r]]
    /\ UNCHANGED <<rows, tokens, own, req, loop>>

\* The three buttons of the reports page.
PurgeAll == Delete({r \in Reports : age[r] # Absent})
BulkDelete == \E some \in SUBSET Reports : Delete(some)
DeleteReport(r) == Delete({r})

\* A day passes; a loop that slept through its 24 hours wakes.
Day ==
    /\ age' = [r \in Reports |-> IF age[r] < MaxAge THEN age[r] + 1 ELSE age[r]]
    /\ loop' = IF loop.pc = "asleep" THEN [pc |-> "awake"] ELSE loop
    /\ UNCHANGED <<rows, tokens, own, req>>

Retention == IF rows.scanner = <<>> THEN 0 ELSE rows.scanner[Len(rows.scanner)].days

ReadRetention ==
    /\ loop.pc = "awake"
    /\ loop' = IF Retention = 0 THEN [pc |-> "asleep"] ELSE [pc |-> "purging", days |-> Retention]
    /\ UNCHANGED <<rows, tokens, own, req, age>>

Purge ==
    /\ loop.pc = "purging"
    /\ age' = [r \in Reports |-> IF age[r] \in (loop.days + 1)..MaxAge THEN Absent ELSE age[r]]
    /\ loop' = [pc |-> "asleep"]
    /\ UNCHANGED <<rows, tokens, own, req>>

\* Mutant of AfterFailure: the exception ends the task.
AfterFailureDead == [pc |-> "ended"]

\* Any exception is logged, and the loop sleeps until tomorrow.
AfterFailure == [pc |-> "asleep"]

PurgeFails ==
    /\ loop.pc \in {"awake", "purging"}
    /\ loop' = AfterFailure
    /\ UNCHANGED <<rows, tokens, own, req, age>>

\* A restart of the service ends open requests and runs the loop at once.
Restart ==
    /\ loop' = [pc |-> "awake"]
    /\ req' = [a \in Admins |-> Idle]
    /\ UNCHANGED <<rows, tokens, own, age>>

Save(a) ==
    \/ \E t \in Tables : ReadLatest(a, t)
    \/ AdvancedForm(a) \/ GatePage(a) \/ ScannerPage(a) \/ MaintenancePage(a)
    \/ OrgForm(a) \/ OrgPage(a) \/ OpenUserForm(a) \/ UserForm(a)

Rotate(a) == ReadCurrent(a) \/ FlushRevocation(a) \/ InsertToken(a)

Maintain ==
    \/ PurgeAll \/ BulkDelete
    \/ \E r \in Reports : Record(r) \/ DeleteReport(r)
    \/ Day \/ ReadRetention \/ Purge \/ PurgeFails \/ Restart

Next == Maintain \/ \E a \in Admins : Save(a) \/ Rotate(a) \/ Abort(a)

Spec == Init /\ [][Next]_vars

\* Days pass, the task is scheduled, and the database does not fail, nor the
\* service restart, each time a purge is due.
FairSpec == Spec /\ WF_vars(Day) /\ SF_vars(ReadRetention) /\ SF_vars(Purge)

-------------------------------------------------------------------------------
(***************************************************************************)
(* Properties                                                              *)
(***************************************************************************)

\* The last save, up to row i, of a page with this section.
LastPost(table, i, sec) ==
    Max({0} \cup {j \in 1..i : rows[table][j].from[sec] = j})

\* A save of the advanced page, by which the retention becomes the default.
Resets(k) == rows.scanner[k].from = [gate |-> k, scanner |-> k, retention |-> 0]

\* "Preserving all other fields": a row has for each section what was last
\* posted for it, except where requests overlapped, that is, where some later
\* save had read the table before that post was committed, and except for a
\* retention that a later save of the advanced page has reset.
LostOnlyByOverlapOrReset ==
    \A t \in Tables : \A i \in DOMAIN rows[t] : \A sec \in Sections[t] :
        LET last == LastPost(t, i, sec)
        IN \/ rows[t][i].from[sec] = last
           \/ \E k \in (last + 1)..i : rows[t][k].base < last
           \/ sec = "retention" /\ \E k \in (last + 1)..i : Resets(k)

\* "If api_key is blank the existing key is preserved", and from however many
\* tabs a user saves: the row has the provider of the last save, also where that
\* is the one its request had read, and the last key that was posted.
TabsSaveInOrder == llm = posted

\* What the maintenance page promises without these exceptions.
SavesPreserveTheRest ==
    \A t \in Tables : \A i \in DOMAIN rows[t] : \A sec \in Sections[t] :
        rows[t][i].from[sec] = LastPost(t, i, sec)

\* A CI token that is active and not the newest was left over by a rotation
\* that overlapped with another: the one after it had read the table before it
\* was inserted.  The newest token is always active.
OldTokensOnlyByOverlap ==
    \A i \in DOMAIN tokens :
        /\ i = Len(tokens) => tokens[i].active
        /\ i < Len(tokens) /\ tokens[i].active => tokens[i+1].base < i

\* While the organisation keeps a limit on the age of reports, no report stays
\* for ever, whatever fails on some days.
OldReportsGo ==
    \A r \in Reports : <>[](Retention > 0) => [](age[r] # Absent => <>(age[r] = Absent))
===============================================================================
