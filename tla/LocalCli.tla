------------------------------- MODULE LocalCli -------------------------------
(***************************************************************************)
(* The phrase-sec-scan command (skill/local_cli.py) of one person on one   *)
(* machine: the processes of several terminals, which share the config     *)
(* file, its temporary twin and the report files, the browser that carries *)
(* tokens from the portal back to a listening login, and the server seen   *)
(* from outside: the tokens it honours (TokenLease) and the scans it runs. *)
(* A process that has exited leaves behind what it wrote and the scan the  *)
(* server may still be running for it.                                     *)
(***************************************************************************)
EXTENDS Naturals, FiniteSets

CONSTANTS Commands,  \* the processes, each one invocation of the command
          Tokens,    \* the secrets the server can mint
          NoSecret,  \* no secret: a file that is absent or has none, a process without one
          Torn,      \* a temporary file whose writing failed half way
          NoScan     \* no report on disk yet

ASSUME CliAssumption == /\ NoSecret \notin Tokens /\ Torn \notin Tokens \cup {NoSecret}
                        /\ NoScan \notin Commands

User == "user"
Attempts == 1..2
CommandKinds == {"login", "manual", "logout", "scan"}
ScanAnswers == {"clean", "risky", "oversized", "failed"}

VARIABLES owner, live,  \* the server's token table, as TokenLease has it
          redirects,    \* <<command, token>> pairs on their way to a loopback port
          shown,        \* the tokens a page of the browser shows
          config,       \* the token in config.yaml
          tmp,          \* the token in config.yaml.tmp
          process,      \* the state of each command
          scans,        \* how many scans the server started for each command
          answer,       \* what the last of them came to
          report,       \* the commands that wrote the .md and the .html file, and those
                        \* that ended with the first alone
          overlaps      \* what two processes have done at once: history

server == <<owner, live>>
browser == <<redirects, shown>>
files == <<config, tmp>>
work == <<scans, answer>>
cliVars == <<owner, live, redirects, shown, config, tmp, process, scans, answer, report, overlaps>>

Server == INSTANCE TokenLease WITH Users <- {User}, RowId <- Tokens, NoUser <- NoSecret

Process == [pc : {"new", "listening", "prompt", "saving", "replacing", "revoking", "removing",
                  "posting", "waiting", "markdown", "html", "done"},
            kind : CommandKinds \cup {"none"}, token : Tokens \cup {NoSecret},
            attempt : Attempts, exit : 0..4]

NotYet == 4    \* in exit: the process has not ended

CliInit ==
    /\ owner = [t \in Tokens |-> NoSecret] /\ live = {}
    /\ redirects = {} /\ shown = {}
    /\ config = NoSecret /\ tmp = NoSecret
    /\ process = [c \in Commands |-> [pc |-> "new", kind |-> "none", token |-> NoSecret,
                                      attempt |-> 1, exit |-> NotYet]]
    /\ scans = [c \in Commands |-> 0]
    /\ answer = [c \in Commands |-> "none"]
    /\ report = [markdown |-> NoScan, html |-> NoScan, single |-> {}]
    /\ overlaps = {}

At(c, pc) == process[c].pc = pc

Become(c, kind, pc, token) ==
    process' = [process EXCEPT ![c] = [@ EXCEPT !.kind = kind, !.pc = pc, !.token = token]]

Goto(c, pc) == process' = [process EXCEPT ![c].pc = pc]

Exited(c, code) == [process[c] EXCEPT !.pc = "done", !.exit = code]

Exit(c, code) == process' = [process EXCEPT ![c] = Exited(c, code)]

SigningIn(c) == /\ process[c].kind \in {"login", "manual"}
                /\ process[c].pc # "done"

Overlap(what, if) == overlaps' = overlaps \cup (IF if THEN {what} ELSE {})
-------------------------------------------------------------------------------
(***************************************************************************)
(* The browser.  Consent on the page a login opened issues or rotates the  *)
(* person's token and redirects to the port of that login; the page stays  *)
(* usable when the login is gone, and the redirect then ends on an error   *)
(* page that has the token in its address.                                 *)
(***************************************************************************)
Consent(c, t) ==
    /\ process[c].kind = "login"
    /\ Server!Mint(t, User)
    /\ redirects' = redirects \cup {<<c, t>>}
    /\ UNCHANGED <<shown, files, process, work, report, overlaps>>

Callback(c, t) ==
    /\ At(c, "listening")
    /\ <<c, t>> \in redirects
    /\ redirects' = redirects \ {<<c, t>>}
    /\ process' = [process EXCEPT ![c].pc = "saving", ![c].token = t]
    /\ UNCHANGED <<server, shown, files, work, report, overlaps>>

NobodyListens(c, t) ==
    /\ ~ At(c, "listening")
    /\ <<c, t>> \in redirects
    /\ redirects' = redirects \ {<<c, t>>}
    /\ shown' = shown \cup {t}
    /\ UNCHANGED <<server, files, process, work, report, overlaps>>

BrowserIssue(t) ==
    /\ Server!Mint(t, User)
    /\ shown' = shown \cup {t}
    /\ UNCHANGED <<redirects, files, process, work, report, overlaps>>

BrowserRevoke(t) ==
    /\ Server!Revoke(t)
    /\ UNCHANGED <<browser, files, process, work, report, overlaps>>
-------------------------------------------------------------------------------
(***************************************************************************)
(* login and logout.                                                       *)
(***************************************************************************)
BeginLogin(c) ==
    /\ At(c, "new")
    /\ \/ Become(c, "login", "listening", NoSecret)
       \/ Become(c, "manual", "prompt", NoSecret)
    /\ Overlap("login", \E d \in Commands \ {c} : SigningIn(d))
    /\ UNCHANGED <<server, browser, files, work, report>>

LoginTimesOut(c) ==
    /\ At(c, "listening")
    /\ Exit(c, 2)
    /\ UNCHANGED <<server, browser, files, work, report, overlaps>>

\* A person may paste a token that a later one has replaced; that is noted.
Paste(c) ==
    /\ At(c, "prompt")
    /\ \/ Exit(c, 2) /\ UNCHANGED overlaps
       \/ \E t \in shown :
            /\ process' = [process EXCEPT ![c].pc = "saving", ![c].token = t]
            /\ Overlap("stale paste", t \notin live)
    /\ UNCHANGED <<server, browser, files, work, report>>

WriteTmp(c) ==
    /\ At(c, "saving")
    /\ tmp' = process[c].token
    /\ Goto(c, "replacing")
    /\ UNCHANGED <<server, browser, config, work, report, overlaps>>

\* Mutant of Replaced: a config that is there stays.
ReplacedIfAbsent == IF config = NoSecret /\ tmp # Torn THEN tmp ELSE config

Replaced == IF tmp = Torn THEN NoSecret ELSE tmp

\* os.replace; the file may have been moved by another login, and the exception
\* ends the process.
Replace(c) ==
    /\ At(c, "replacing")
    /\ IF tmp = NoSecret THEN Exit(c, 1) /\ UNCHANGED files
                        ELSE Exit(c, 0) /\ config' = Replaced /\ tmp' = NoSecret
    /\ UNCHANGED <<server, browser, work, report, overlaps>>

BeginLogout(c) ==
    /\ At(c, "new")
    /\ \/ config # NoSecret /\ Become(c, "logout", "revoking", config)
       \/ Become(c, "logout", "removing", config)
    /\ UNCHANGED <<server, browser, files, work, report, overlaps>>

\* POST /portal/tokens/revoke asks for a portal session and gets a bearer token:
\* the answer is 401 and the token stays; a warning is printed.
RevokeRemote(c) ==
    /\ At(c, "revoking")
    /\ Goto(c, "removing")
    /\ UNCHANGED <<server, browser, files, work, report, overlaps>>

RemoveConfig(c) ==
    /\ At(c, "removing")
    /\ config' = NoSecret
    /\ Exit(c, 0)
    /\ UNCHANGED <<server, browser, tmp, work, report, overlaps>>
-------------------------------------------------------------------------------
(***************************************************************************)
(* scan.  The token is read once, before the files are collected.          *)
(***************************************************************************)
ScanGivenUp(c) == process' = [process EXCEPT ![c] = [Exited(c, 2) EXCEPT !.kind = "scan"]]

\* The walk skips ignored, generated, large, binary and unreadable files, and
\* what vanishes under it; the command ends if that leaves none.
NothingToScan(c) == config # NoSecret /\ ScanGivenUp(c)

BeginScan(c) ==
    /\ At(c, "new")
    /\ \/ config = NoSecret /\ ScanGivenUp(c)
       \/ NothingToScan(c)
       \/ config # NoSecret /\ Become(c, "scan", "posting", config)
    /\ UNCHANGED <<server, browser, files, work, report, overlaps>>

\* The server takes the request: it has a slot, and the token authenticates.
Accepted(c) ==
    /\ At(c, "posting")
    /\ process[c].token \in live
    /\ scans' = [scans EXCEPT ![c] = @ + 1]
    /\ answer' = [answer EXCEPT ![c] = "running"]
    /\ Goto(c, "waiting")
    /\ UNCHANGED <<server, browser, files, report, overlaps>>

AfterBusy(p) == IF p.attempt = 1 THEN [p EXCEPT !.attempt = 2]
                                 ELSE [p EXCEPT !.pc = "done", !.exit = 2]

Busy(c) ==
    /\ At(c, "posting")
    /\ process' = [process EXCEPT ![c] = AfterBusy(@)]
    /\ UNCHANGED <<server, browser, files, work, report, overlaps>>

\* 401, 412, any other refusal, or no connection at all.
Refused(c) ==
    /\ At(c, "posting")
    /\ Exit(c, 2)
    /\ UNCHANGED <<server, browser, files, work, report, overlaps>>

\* The server goes on with a scan whose client is gone.
ScanEnds(c) ==
    /\ answer[c] = "running"
    /\ \E a \in ScanAnswers : answer' = [answer EXCEPT ![c] = a]
    /\ UNCHANGED <<server, browser, files, process, scans, report, overlaps>>

\* Mutant of AfterAnswer: 502 is taken for a report without findings.
AfterAnswerAnyStatus(c) == [process[c] EXCEPT !.pc = "markdown"]

AfterAnswer(c) ==
    IF answer[c] = "failed" THEN Exited(c, 3) ELSE [process[c] EXCEPT !.pc = "markdown"]

Receive(c) ==
    /\ At(c, "waiting")
    /\ answer[c] # "running"
    /\ process' = [process EXCEPT ![c] = AfterAnswer(c)]
    /\ UNCHANGED <<server, browser, files, work, report, overlaps>>

AfterSilence(p) == [p EXCEPT !.pc = "done", !.exit = 2]

TimesOut(c) ==
    /\ At(c, "waiting")
    /\ process' = [process EXCEPT ![c] = AfterSilence(@)]
    /\ UNCHANGED <<server, browser, files, work, report, overlaps>>

WriteMarkdown(c) ==
    /\ At(c, "markdown")
    /\ report' = [report EXCEPT !.markdown = c]
    /\ Goto(c, "html")
    /\ Overlap("report", \E d \in Commands : At(d, "html"))
    /\ UNCHANGED <<server, browser, files, work>>

\* Mutant of HtmlReport: the page of a scan without findings is not written.
HtmlReportIfFindings(c) == IF answer[c] = "risky" THEN c ELSE report.html

HtmlReport(c) == c

\* Servers that are older send no page.
WriteHtml(c) ==
    /\ At(c, "html")
    /\ \/ report' = [report EXCEPT !.html = HtmlReport(c)]
       \/ report' = [report EXCEPT !.single = @ \cup {c}]
    /\ Exit(c, IF answer[c] = "risky" THEN 1 ELSE 0)
    /\ UNCHANGED <<server, browser, files, work, overlaps>>
-------------------------------------------------------------------------------
(***************************************************************************)
(* A signal, or an exception that nobody catches, ends a process anywhere: a *)
(* disk that is full, a file that may not be written or has gone, an answer *)
(* that breaks off or is no JSON.  Python exits with 1.  A page written by  *)
(* half is none.                                                           *)
(***************************************************************************)
Dies(c) ==
    /\ process[c].pc \notin {"new", "done"}
    /\ Exit(c, 1)
    /\ tmp' \in IF At(c, "saving") THEN {tmp, Torn} ELSE {tmp}
    /\ report' = IF At(c, "html") THEN [report EXCEPT !.single = @ \cup {c}] ELSE report
    /\ UNCHANGED <<server, browser, config, work, overlaps>>
-------------------------------------------------------------------------------
SignIn(c) == LoginTimesOut(c) \/ WriteTmp(c) \/ Replace(c)

SignOut(c) == RevokeRemote(c) \/ RemoveConfig(c)

Scan(c) == \/ Accepted(c) \/ Busy(c) \/ Refused(c)
           \/ Receive(c) \/ TimesOut(c)
           \/ WriteMarkdown(c) \/ WriteHtml(c)

Browse == \E t \in Tokens :
            \/ BrowserIssue(t) \/ BrowserRevoke(t)
            \/ \E c \in Commands : Consent(c, t) \/ Callback(c, t) \/ NobodyListens(c, t)

Finished == \A c \in Commands : At(c, "done")

CliNext ==
    \/ Browse
    \/ \E c \in Commands :
         \/ BeginLogin(c) \/ BeginLogout(c) \/ BeginScan(c) \/ Paste(c)
         \/ SignIn(c) \/ SignOut(c) \/ Scan(c) \/ ScanEnds(c) \/ Dies(c)
    \/ Finished /\ UNCHANGED cliVars

CliSpec == CliInit /\ [][CliNext]_cliVars
-------------------------------------------------------------------------------
CliTypeOK ==
    /\ owner \in [Tokens -> {User, NoSecret}] /\ live \subseteq Tokens
    /\ redirects \subseteq Commands \X Tokens /\ shown \subseteq Tokens
    /\ config \in Tokens \cup {NoSecret} /\ tmp \in Tokens \cup {NoSecret, Torn}
    /\ process \in [Commands -> Process]
    /\ scans \in [Commands -> 0..2]
    /\ answer \in [Commands -> ScanAnswers \cup {"none", "running"}]
    /\ report \in [markdown : Commands \cup {NoScan}, html : Commands \cup {NoScan},
                   single : SUBSET Commands]
    /\ overlaps \subseteq {"login", "stale paste", "report"}

\* The person has logged out of this machine and has not logged in since.
LoggedOut == config = NoSecret /\ \E c \in Commands : process[c].kind = "logout"

\* A token the server honours is never lost in silence: it is in the config file,
\* on its way to a login, or on a page of the browser, or the login that received
\* it is still saving it or has not exited with 0.  A logout that left no config
\* is the person's wish.  Only logins that overlap, and a paste of a dead token,
\* put an older one into the config.
LiveTokenNotLost ==
    \A t \in live :
       \/ config = t \/ LoggedOut
       \/ t \in shown
       \/ \E c \in Commands : <<c, t>> \in redirects
       \/ \E c \in Commands :
             process[c].kind \in {"login", "manual"} /\ process[c].token = t /\ process[c].exit # 0
       \/ overlaps \cap {"login", "stale paste"} # {}

\* What a scan command tells its caller is true: it had the server scan at most
\* once, however it was answered, exit 0 means that this one scan ended without
\* critical or high findings (or found the project too large), and exit 3 that
\* it failed.
ScanToldTruly ==
    \A c \in Commands : process[c].kind = "scan" =>
       /\ scans[c] <= 1
       /\ process[c].exit = 0 => scans[c] = 1 /\ answer[c] \in {"clean", "oversized"}
       /\ process[c].exit = 3 => scans[c] = 1 /\ answer[c] = "failed"

\* The two report files are of one scan whenever no command is between writing
\* them, unless two commands ever wrote them at the same time, or the one that
\* wrote the .md got no page from the server or died before it had written it.
ReportsAgree ==
    \/ report.markdown = report.html
    \/ report.markdown \in report.single
    \/ \E c \in Commands : At(c, "html")
    \/ "report" \in overlaps

\* What the logout of the command is for: once it has exited, the token it found
\* in the config is dead (local_cli.py:236).
LogoutRevokes ==
    [][\A c \in Commands :
          At(c, "revoking") /\ ~ At(c, "revoking")' => process[c].token \notin live']_cliVars

\* README.md:81: exit code 1 is "At least one Critical or High finding".
ExitOneMeansFindings ==
    \A c \in Commands :
       process[c].kind = "scan" /\ process[c].exit = 1 => answer[c] = "risky"
===============================================================================
