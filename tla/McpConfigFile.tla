---------------------------- MODULE McpConfigFile ----------------------------
(***************************************************************************)
(* Where MCP connections come from (mcp/config_file.py): a JSON file that the *)
(* user's editor and the web page both write, published into the database by  *)
(* saves, by reloads and by a watcher that polls.                              *)
(***************************************************************************)
EXTENDS Integers

CONSTANTS
    Text,              \* bound: texts that validate
    FirstText,         \* the one in effect at the start
    Invalid,           \* a text that does not, or no file
    NoText,            \* no text yet
    WebSave,           \* bound: save commands
    MaxEdits,          \* bound: external edits
    MaxApiDeaths       \* bound: deaths of the API process

ASSUME ConfigAssumption ==
    /\ FirstText \in Text /\ {Invalid, NoText} \cap Text = {}
    /\ {"free", "reload", "nobody"} \cap WebSave = {}
    /\ MaxEdits \in Nat /\ MaxApiDeaths \in Nat

VARIABLES
    file,              \* mcp.json
    loaded,            \* mcp_file_state: the text in effect, with the config/mcp rows it made
    loadError,         \* mcp_file_status
    journal,           \* mcp_file_journal
    fileLock,
    save,              \* a save command and the text its page had seen
    reload,            \* the reload under way, and who asked for it
    polled,            \* watch(): the text it saw last
    apiUp,
    late,              \* saves that were past their second read when the file was edited
    clobbered,         \* saves not late that replaced a text their page had not seen
    edits, apiDeaths

gvars == <<file, loaded, loadError, journal, fileLock, save, reload, polled, apiUp, late, clobbered,
           edits, apiDeaths>>

Free == "free"
Quiet == [at |-> "none", text |-> NoText]
Unsaved == [at |-> "none", seen |-> NoText, text |-> NoText]
SaveGoes(s, at) == save' = [save EXCEPT ![s].at = at]

------------------------------------------------------------------------------
\* The file

\* Another editor, at any time and without the lock.
ExternalEdit(t) ==
    /\ edits < MaxEdits /\ t /= file
    /\ file' = t /\ edits' = edits + 1
    /\ late' = late \cup {s \in WebSave : save[s].at = "replacing"}
    /\ UNCHANGED <<loaded, loadError, journal, fileLock, save, reload, polled, apiUp, clobbered, apiDeaths>>

\* _publish, one transaction: the text in effect already is left alone, journal included.
Publish(t, s) ==
    IF t = loaded THEN UNCHANGED <<loaded, journal>>
    ELSE /\ loaded' = t
         /\ journal' = [x \in WebSave |->
                IF x = s THEN "completed"
                ELSE IF journal[x] = "prepared" THEN (IF save[x].text = t THEN "completed" ELSE "superseded")
                ELSE journal[x]]

Nobody == "nobody"

\* The page is shown the file, and its text is edited there.
WebReads(s, t) ==
    /\ apiUp /\ save[s].at = "none" /\ file /= t
    /\ save' = [save EXCEPT ![s] = [at |-> "asked", seen |-> file, text |-> t]]
    /\ UNCHANGED <<file, loaded, loadError, journal, fileLock, reload, polled, apiUp,
                   late, clobbered, edits, apiDeaths>>

\* save(): under the lock, the file is the one the page had seen; a journal row is prepared.
SaveAccepted(s) ==
    /\ apiUp /\ save[s].at = "asked" /\ fileLock = Free
    /\ IF file = save[s].seen
       THEN /\ fileLock' = s /\ SaveGoes(s, "prepared")
            /\ journal' = [journal EXCEPT ![s] = "prepared"]
       ELSE SaveGoes(s, "refused") /\ UNCHANGED <<fileLock, journal>>
    /\ UNCHANGED <<file, loaded, loadError, reload, polled, apiUp, late, clobbered, edits, apiDeaths>>

\* The file is not read again after the temporary file is written.
SecondReadSkipped(s) ==
    /\ apiUp /\ save[s].at = "prepared"
    /\ SaveGoes(s, "replacing") /\ UNCHANGED fileLock
    /\ UNCHANGED <<file, loaded, loadError, journal, reload, polled, apiUp, late, clobbered,
                   edits, apiDeaths>>

\* The temporary file is written, then the file is read once more.
SecondRead(s) ==
    /\ apiUp /\ save[s].at = "prepared"
    /\ IF file = save[s].seen THEN SaveGoes(s, "replacing") /\ UNCHANGED fileLock
                              ELSE SaveGoes(s, "refused") /\ fileLock' = Free
    /\ UNCHANGED <<file, loaded, loadError, journal, reload, polled, apiUp, late, clobbered,
                   edits, apiDeaths>>

\* os.replace
Replaces(s) ==
    /\ apiUp /\ save[s].at = "replacing"
    /\ file' = save[s].text
    /\ clobbered' = IF file /= save[s].seen /\ s \notin late THEN clobbered \cup {s} ELSE clobbered
    /\ SaveGoes(s, "replaced")
    /\ UNCHANGED <<loaded, loadError, journal, fileLock, reload, polled, apiUp, late, edits, apiDeaths>>

\* Published, unless the file changed once more: then only the journal row stays behind.
SavePublishes(s) ==
    /\ apiUp /\ save[s].at = "replaced"
    /\ SaveGoes(s, "done") /\ fileLock' = Free
    /\ IF file = save[s].text THEN Publish(file, s) /\ loadError' = FALSE
                              ELSE UNCHANGED <<loaded, journal, loadError>>
    /\ UNCHANGED <<file, reload, polled, apiUp, late, clobbered, edits, apiDeaths>>

------------------------------------------------------------------------------
\* Reloading

\* watch() looks again only when the file has changed since the last look.
PollsChanges ==
    /\ apiUp /\ reload.at = "none"
    /\ IF file /= polled /\ file /= loaded
       THEN reload' = [at |-> "asked", text |-> file] /\ UNCHANGED polled
       ELSE polled' = file /\ UNCHANGED reload
    /\ UNCHANGED <<file, loaded, loadError, journal, fileLock, save, apiUp, late, clobbered,
                   edits, apiDeaths>>

\* watch(): a text seen twice that is not in effect is reloaded.
Polls ==
    /\ apiUp /\ reload.at = "none"
    /\ IF file = polled /\ file /= loaded
       THEN reload' = [at |-> "asked", text |-> file] /\ UNCHANGED polled
       ELSE polled' = file /\ UNCHANGED reload
    /\ UNCHANGED <<file, loaded, loadError, journal, fileLock, save, apiUp, late, clobbered,
                   edits, apiDeaths>>

\* The lock is held too long: the poll is given up and made again.
PollGivesUp ==
    /\ apiUp /\ reload.at = "asked" /\ fileLock /= Free
    /\ reload' = Quiet
    /\ UNCHANGED <<file, loaded, loadError, journal, fileLock, save, polled, apiUp,
                   late, clobbered, edits, apiDeaths>>

\* reload(): the text is read under the lock; no configuration in it is an error to show.
ReloadReads ==
    /\ apiUp /\ reload.at = "asked" /\ fileLock = Free
    /\ IF file \in Text
       THEN /\ reload' = [at |-> "read", text |-> file] /\ fileLock' = "reload"
            /\ UNCHANGED <<loadError, polled>>
       ELSE /\ reload' = Quiet /\ polled' = reload.text /\ loadError' = TRUE /\ UNCHANGED fileLock
    /\ UNCHANGED <<file, loaded, journal, save, apiUp, late, clobbered, edits, apiDeaths>>

\* _publish reads the file in its transaction: a change since is a conflict, an error too.
ReloadPublishes ==
    /\ apiUp /\ reload.at = "read"
    /\ IF file = reload.text THEN Publish(file, Nobody) /\ loadError' = FALSE
                             ELSE loadError' = TRUE /\ UNCHANGED <<loaded, journal>>
    /\ reload' = Quiet /\ fileLock' = Free /\ polled' = reload.text
    /\ UNCHANGED <<file, save, apiUp, late, clobbered, edits, apiDeaths>>

\* A command of the page asks for the same reload.
WebReloads ==
    /\ apiUp /\ reload.at = "none"
    /\ reload' = [at |-> "asked", text |-> polled]
    /\ UNCHANGED <<file, loaded, loadError, journal, fileLock, save, polled, apiUp,
                   late, clobbered, edits, apiDeaths>>

------------------------------------------------------------------------------
\* The process dies with its commands; the lock is the kernel's, the journal and the flow stay.
ApiDies ==
    /\ apiUp /\ apiDeaths < MaxApiDeaths
    /\ apiUp' = FALSE /\ apiDeaths' = apiDeaths + 1
    /\ fileLock' = Free /\ reload' = Quiet /\ polled' = NoText
    /\ save' = [s \in WebSave |-> IF save[s].at = "none" THEN save[s] ELSE [save[s] EXCEPT !.at = "done"]]
    /\ UNCHANGED <<file, loaded, loadError, journal, late, clobbered, edits>>

\* initialize(): a new process begins with a reload.
ApiReturns ==
    /\ ~apiUp /\ apiUp' = TRUE
    /\ reload' = [at |-> "asked", text |-> NoText]
    /\ UNCHANGED <<file, loaded, loadError, journal, fileLock, save, polled, late, clobbered,
                   edits, apiDeaths>>

ConfigInit ==
    /\ file = FirstText /\ loaded = FirstText
    /\ loadError = FALSE /\ fileLock = Free /\ apiUp = TRUE
    /\ journal = [s \in WebSave |-> "none"]
    /\ save = [s \in WebSave |-> Unsaved]
    /\ reload = Quiet /\ polled = NoText
    /\ late = {} /\ clobbered = {} /\ edits = 0 /\ apiDeaths = 0

SaveStep(s) == SaveAccepted(s) \/ SecondRead(s) \/ Replaces(s) \/ SavePublishes(s)
ReloadStep == ReloadReads \/ ReloadPublishes

ConfigNext ==
    \/ \E t \in Text \cup {Invalid} : ExternalEdit(t)
    \/ \E s \in WebSave : SaveStep(s) \/ \E t \in Text : WebReads(s, t)
    \/ Polls \/ PollGivesUp \/ ReloadStep \/ WebReloads
    \/ ApiDies \/ ApiReturns

\* A process that is up goes on with what it began and polls; one that died is started again.
ConfigFairness ==
    /\ \A s \in WebSave : WF_gvars(SaveStep(s))
    /\ WF_gvars(ReloadStep) /\ WF_gvars(Polls) /\ WF_gvars(ApiReturns)

ConfigSpec == ConfigInit /\ [][ConfigNext]_gvars /\ ConfigFairness

------------------------------------------------------------------------------
\* File, rows and commands keep their shapes.
ConfigTypeOK ==
    /\ file \in Text \cup {Invalid} /\ loaded \in Text
    /\ loadError \in BOOLEAN /\ apiUp \in BOOLEAN
    /\ journal \in [WebSave -> {"none", "prepared", "completed", "superseded"}]
    /\ fileLock \in {Free, "reload"} \cup WebSave
    /\ \A s \in WebSave :
          /\ save[s].at \in {"none", "asked", "prepared", "replacing", "replaced", "refused", "done"}
          /\ save[s].at /= "none" => save[s].text \in Text /\ save[s].seen \in Text \cup {Invalid}
    /\ reload.at \in {"none", "asked", "read"}
    /\ polled \in Text \cup {Invalid, NoText}
    /\ late \subseteq WebSave /\ clobbered \subseteq WebSave

\* save(): a text edited since the page was shown is overwritten only if the edit fell between
\* the second read and os.replace.
SavedWhatWasSeen == clobbered = {}

\* watch() and initialize(): once editing ends, a valid file is what runs are given.
FileTakesEffect == <>[](file = Invalid \/ loaded = file)
==============================================================================
