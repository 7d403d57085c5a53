-------------------------- MODULE NewJournalAlert ---------------------------
(***************************************************************************)
(* new_journal_alert (src/cpp/new_journal_alert.cc), run again and again   *)
(* by cron, against a Solr index that the import keeps adding issues to.  *)
(*                                                                         *)
(* Persistent state: the max_last_modification_time of every subscription *)
(* (MySQL table ixtheo_journal_subscriptions), the notified database      *)
(* (Kyoto Cabinet, keyed by issue id only), and the e-mails handed to the *)
(* mail server.  One run of Main: for each user, query Solr per           *)
(* subscription for issues modified after the stored time and not in the  *)
(* notified database, send one e-mail listing them, write the changed     *)
(* subscription times back; after the last user, add every newly notified *)
(* id to the notified database.  The run may die anywhere (LOG_ERROR,     *)
(* queryOrDie, a kill), losing everything not yet written.                *)
(*                                                                         *)
(* A subscription names a serial or a bundle of serials; Members gives    *)
(* the serials queried for it, in the order the bundle lists them.  Times *)
(* are whole seconds, the resolution of the stored DATETIME.  Issues are  *)
(* assumed to lie inside the two-year window of the query.                *)
(***************************************************************************)
EXTENDS Integers, FiniteSets, SequencesExt

CONSTANTS
    Users,          \* users with subscriptions of this user_type
    Keys,           \* journal_control_number_or_bundle_name values
    Subscriptions,  \* rows of ixtheo_journal_subscriptions, as <<user, key>>
    Members,        \* [Keys -> Seq(Serials)]: the serial itself, or the bundle's ppns
    Serials,        \* serial control numbers
    Issues,         \* issue records of the serials
    SerialOf,       \* [Issues -> Serials]: superior_ppn of an issue
    MaxTime,        \* bound on the clock
    SameSecond,     \* whether the import may index two issues within one second
    ImportInRun,    \* whether the import may run while the program runs
    MaxCrashes      \* bound on the runs that die before their end

ASSUME Subscriptions \subseteq Users \X Keys

VARIABLES
    now,        \* the clock of the import, in seconds
    indexed,    \* issues Solr returns
    mtime,      \* last_modification_time of each indexed issue
    stored,     \* max_last_modification_time of each subscription, as MySQL holds it
    notified,   \* the keys of the notified database
    offered,    \* <<user, issue>> pairs handed to the mail server
    crashes,    \* runs that died
    pc,         \* "idle", "users", "email", "update", "record"
    todo,       \* users ProcessSubscriptions has still to process
    cu,         \* the user ProcessSingleUser works on
    work,       \* that user's SerialControlNumberAndMaxLastModificationTime objects
    infos,      \* the ids of new_issue_infos
    upd,        \* keys whose UPDATE is still to come
    new_ids     \* new_notification_ids

vars == <<now, indexed, mtime, stored, notified, offered, crashes,
          pc, todo, cu, work, infos, upd, new_ids>>

Times == 0..MaxTime

(* The two date formats: MySQL's "2017-01-01 00:00:00" and Solr's        *)
(* "2017-01-01T00:00:00Z".  Same-format dates compare as their times.     *)
DbDate(t) == [fmt |-> "db", t |-> t]
Zulu(t) == [fmt |-> "zulu", t |-> t]
ConvertDateToZuluDate(d) == [d EXCEPT !.fmt = "zulu"]
ConvertDateFromZuluDate(d) == [d EXCEPT !.fmt = "db"]

KeysOf(u) == {k \in Keys : <<u, k>> \in Subscriptions}
SubscribedUsers == {s[1] : s \in Subscriptions}

(* Mutant: the notified database is not consulted. *)
GetNewIssuesIgnoringNotified(s, lmt) ==
    {i \in indexed : SerialOf[i] = s /\ mtime[i] > lmt.t}

(* GetNewIssues: issues of serial s modified strictly after lmt           *)
(* ("last_modification_time:{lmt TO *}") and not in the notified database.*)
GetNewIssues(s, lmt) ==
    {i \in indexed : SerialOf[i] = s /\ mtime[i] > lmt.t /\ i \notin notified}

(* ExtractNewIssueInfos over one serial: the shared max_last_modification_ *)
(* time rises to the newest issue; if it rose, setMaxLastModificationTime  *)
(* stores it in the object, whose last_modification_time_ the next bundle *)
(* member is then queried with.                                            *)
QueryMember(acc, s) ==
    LET hits  == GetNewIssues(s, acc.lmt)
        found == \E i \in hits : mtime[i] > acc.max.t
        max   == IF found THEN Zulu(Max({mtime[i] : i \in hits})) ELSE acc.max
    IN  [lmt |-> IF found THEN max ELSE acc.lmt, max |-> max,
         changed |-> acc.changed \/ found, hits |-> acc.hits \cup hits]

(* The collection loop of ProcessSingleUser for one subscription. *)
CollectSubscription(u, k) ==
    LET start == ConvertDateToZuluDate(stored[<<u, k>>])
    IN  FoldLeft(QueryMember, [lmt |-> start, max |-> start, changed |-> FALSE, hits |-> {}],
                 Members[k])

(* Where a run goes once a user's part is done or skipped. *)
AfterUser(u_upd, u_todo) ==
    IF u_upd # {} THEN "update" ELSE IF u_todo # {} THEN "users" ELSE "record"

NoWork == [k \in {} |-> 0]

(***************************************************************************)
(* A run of Main.                                                          *)
(***************************************************************************)
(* Main: open the notified database and start ProcessSubscriptions. *)
StartRun ==
    /\ pc = "idle"
    /\ pc' = IF SubscribedUsers = {} THEN "record" ELSE "users"
    /\ todo' = SubscribedUsers
    /\ new_ids' = {}
    /\ UNCHANGED <<now, indexed, mtime, stored, notified, offered, crashes, cu, work, infos, upd>>

(* Mutant: the ids are added to the notified database as they are found. *)
CollectNewIssuesRecordingAtOnce(u) ==
    LET w    == [k \in KeysOf(u) |-> CollectSubscription(u, k)]
        hits == UNION {w[k].hits : k \in KeysOf(u)}
        ch   == {k \in KeysOf(u) : w[k].changed}
    IN
    /\ pc = "users"
    /\ u \in todo
    /\ todo' = todo \ {u}
    /\ cu' = u
    /\ work' = w
    /\ infos' = hits
    /\ new_ids' = new_ids \cup hits
    /\ upd' = ch
    /\ pc' = IF hits # {} THEN "email" ELSE AfterUser(ch, todo \ {u})
    /\ notified' = notified \cup hits
    /\ UNCHANGED <<now, indexed, mtime, stored, offered, crashes>>

(* ProcessSingleUser up to the e-mail: collect the new issues of every    *)
(* subscription of user u.                                                *)
CollectNewIssues(u) ==
    LET w    == [k \in KeysOf(u) |-> CollectSubscription(u, k)]
        hits == UNION {w[k].hits : k \in KeysOf(u)}
        ch   == {k \in KeysOf(u) : w[k].changed}
    IN
    /\ pc = "users"
    /\ u \in todo
    /\ todo' = todo \ {u}
    /\ cu' = u
    /\ work' = w
    /\ infos' = hits
    /\ new_ids' = new_ids \cup hits
    /\ upd' = ch
    /\ pc' = IF hits # {} THEN "email" ELSE AfterUser(ch, todo \ {u})
    /\ UNCHANGED <<now, indexed, mtime, stored, notified, offered, crashes>>

(* Volatile state of a run that has died. *)
Died ==
    /\ pc' = "idle"
    /\ crashes' = crashes + 1
    /\ todo' = {} /\ cu' = cu /\ work' = NoWork /\ infos' = {} /\ upd' = {} /\ new_ids' = {}

(* Mutant: every failed response is only logged, as 550 is. *)
SendNotificationEmailWarnOnFailure ==
    /\ pc = "email"
    /\ \/ /\ offered' = offered \cup ({cu} \X infos)
          /\ pc' = AfterUser(upd, todo)
          /\ UNCHANGED <<crashes, todo, cu, work, infos, upd, new_ids>>
       \/ /\ crashes < MaxCrashes
          /\ pc' = AfterUser(upd, todo)
          /\ UNCHANGED <<offered, crashes, todo, cu, work, infos, upd, new_ids>>
    /\ UNCHANGED <<now, indexed, mtime, stored, notified>>

(* SendNotificationEmail: a response below 300, or 550, lets the run go  *)
(* on; any other response is a LOG_ERROR and the run dies.               *)
SendNotificationEmail ==
    /\ pc = "email"
    /\ \/ /\ offered' = offered \cup ({cu} \X infos)
          /\ pc' = AfterUser(upd, todo)
          /\ UNCHANGED <<crashes, todo, cu, work, infos, upd, new_ids>>
       \/ /\ crashes < MaxCrashes
          /\ Died
          /\ UNCHANGED offered
    /\ UNCHANGED <<now, indexed, mtime, stored, notified>>

(* Mutant: the UPDATE writes the Solr form of the date. *)
UpdateSubscriptionNoConversion(k) ==
    /\ pc = "update"
    /\ k \in upd
    /\ stored' = [stored EXCEPT ![<<cu, k>>] = work[k].lmt]
    /\ upd' = upd \ {k}
    /\ pc' = AfterUser(upd \ {k}, todo)
    /\ UNCHANGED <<now, indexed, mtime, notified, offered, crashes, todo, cu, work, infos, new_ids>>

(* One UPDATE of a changed subscription. *)
UpdateSubscription(k) ==
    /\ pc = "update"
    /\ k \in upd
    /\ stored' = [stored EXCEPT ![<<cu, k>>] = ConvertDateFromZuluDate(work[k].lmt)]
    /\ upd' = upd \ {k}
    /\ pc' = AfterUser(upd \ {k}, todo)
    /\ UNCHANGED <<now, indexed, mtime, notified, offered, crashes, todo, cu, work, infos, new_ids>>

(* RecordNewlyNotifiedIds, one notified_db->add() per id. *)
RecordNewlyNotifiedId(i) ==
    /\ pc = "record"
    /\ i \in new_ids
    /\ notified' = notified \cup {i}
    /\ new_ids' = new_ids \ {i}
    /\ UNCHANGED <<now, indexed, mtime, stored, offered, crashes, pc, todo, cu, work, infos, upd>>

(* Main returns. *)
EndRun ==
    /\ pc = "record"
    /\ new_ids = {}
    /\ pc' = "idle"
    /\ UNCHANGED <<now, indexed, mtime, stored, notified, offered, crashes, todo, cu, work,
                   infos, upd, new_ids>>

(* The run dies between two of its steps. *)
Crash ==
    /\ pc # "idle"
    /\ crashes < MaxCrashes
    /\ Died
    /\ UNCHANGED <<now, indexed, mtime, stored, notified, offered>>

(***************************************************************************)
(* The import that feeds Solr.                                             *)
(***************************************************************************)
NextSecond == IF SameSecond THEN {now, now + 1} \cap 1..MaxTime ELSE {now + 1} \cap 1..MaxTime

Importing == ImportInRun \/ pc = "idle"

IndexIssue(i) ==
    /\ Importing
    /\ i \notin indexed
    /\ \E t \in NextSecond : now' = t /\ mtime' = [mtime EXCEPT ![i] = t]
    /\ indexed' = indexed \cup {i}
    /\ UNCHANGED <<stored, notified, offered, crashes, pc, todo, cu, work, infos, upd, new_ids>>

ModifyIssue(i) ==
    /\ Importing
    /\ i \in indexed
    /\ \E t \in NextSecond : now' = t /\ mtime' = [mtime EXCEPT ![i] = t]
    /\ UNCHANGED <<indexed, stored, notified, offered, crashes, pc, todo, cu, work, infos, upd,
                   new_ids>>

Init ==
    /\ now = 0
    /\ indexed = {}
    /\ mtime = [i \in Issues |-> 0]
    /\ stored = [s \in Subscriptions |-> DbDate(0)]
    /\ notified = {}
    /\ offered = {}
    /\ crashes = 0
    /\ pc = "idle"
    /\ todo = {}
    /\ cu = CHOOSE u \in Users : TRUE
    /\ work = NoWork
    /\ infos = {}
    /\ upd = {}
    /\ new_ids = {}

Next ==
    \/ StartRun
    \/ \E u \in Users : CollectNewIssues(u)
    \/ SendNotificationEmail
    \/ \E k \in Keys : UpdateSubscription(k)
    \/ \E i \in Issues : RecordNewlyNotifiedId(i)
    \/ EndRun
    \/ Crash
    \/ \E i \in Issues : IndexIssue(i) \/ ModifyIssue(i)

(* cron starts the program again and again, and a started run is         *)
(* scheduled; the import and the failures are not required to happen.    *)
Fairness ==
    /\ WF_vars(StartRun)
    /\ WF_vars(\E u \in Users : CollectNewIssues(u))
    /\ WF_vars(SendNotificationEmail)
    /\ WF_vars(\E k \in Keys : UpdateSubscription(k))
    /\ WF_vars(\E i \in Issues : RecordNewlyNotifiedId(i))
    /\ WF_vars(EndRun)

Spec == Init /\ [][Next]_vars /\ Fairness

(***************************************************************************)
(* Properties.                                                             *)
(***************************************************************************)
Dates(f) == [fmt : {f}, t : Times]
Work == [lmt : Dates("zulu"), max : Dates("zulu"), changed : BOOLEAN, hits : SUBSET Issues]

TypeOK ==
    /\ now \in Times /\ indexed \subseteq Issues /\ mtime \in [Issues -> Times]
    /\ stored \in [Subscriptions -> Dates("db")]
    /\ notified \subseteq Issues /\ offered \subseteq Users \X Issues
    /\ crashes \in 0..MaxCrashes
    /\ pc \in {"idle", "users", "email", "update", "record"}
    /\ todo \subseteq Users /\ cu \in Users
    /\ \E K \in SUBSET Keys : work \in [K -> Work]
    /\ infos \subseteq Issues /\ upd \subseteq Keys /\ new_ids \subseteq Issues

(* The subscriptions a user has to a serial's issues. *)
Covers(s, i) == SerialOf[i] \in Range(Members[s[2]])

(* Once a subscription's stored max_last_modification_time has passed an *)
(* issue of its serials, the issue has been e-mailed to the subscriber.   *)
(* This is about the order of the steps of a run: the e-mail is sent      *)
(* before the UPDATE raises the stored time, and the notified ids are    *)
(* recorded only at the end, so a run that dies at any step, and a       *)
(* modified issue, leave no issue behind the stored time un-e-mailed.    *)
(* It holds only where issues have distinct seconds and the import is    *)
(* idle during a run (SameSecond and ImportInRun FALSE): the exclusive   *)
(* lower bound of the Solr query and an issue indexed between two users  *)
(* of one run do skip issues, as TLC shows with either switch set.       *)
NoIssueMissed ==
    \A s \in Subscriptions, i \in indexed :
        Covers(s, i) /\ mtime[i] <= stored[s].t => <<s[1], i>> \in offered

(* Every issue that appears in Solr is eventually e-mailed to every user *)
(* subscribed to its serial, runs that die on the way notwithstanding.   *)
EveryIssueNotified ==
    \A s \in Subscriptions, i \in Issues :
        Covers(s, i) => (i \in indexed ~> <<s[1], i>> \in offered)

(* As long as no run has died, an e-mail that goes out never lists an    *)
(* issue the same user was sent before: the stored times and the notified *)
(* database keep an issue from being sent twice, also after its record   *)
(* is modified.  (A run that dies after the e-mail and before the UPDATEs *)
(* does make the next run send it again.)                                 *)
EmailNeverRepeats ==
    [][pc = "email" /\ pc' # "idle" /\ crashes = 0 => ({cu} \X infos) \cap offered = {}]_vars
=============================================================================
