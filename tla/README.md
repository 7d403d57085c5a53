# TLA+ models of ub_tools

This directory holds TLA+ models of the record-processing core of ub_tools. It also holds the TLC configurations that check them. Every module is written from the C++ under `src/`. `PROJECT.json` maps each definition to the lines it models, lists the runs and their mutants, and records the hazards of the code and the findings.

## The system

ub_tools is a set of batch programs. Each one reads MARC-21 bibliographic records, rewrites them and writes them out, and some also patch a MySQL or Kyoto Cabinet database. The parts and how they interact:

| Part | Source | State it keeps | Operations |
|---|---|---|---|
| MARC record | `cpp/lib/src/MarcRecord.cc`, `cpp/lib/DirectoryEntry.h` | directory of (tag, length, offset) entries; append-only `raw_data_` | insertField, insertSubfield, updateField, deleteField, deleteFields, filterTags, combine, deleteSubfield; queries getFieldIndex, getFieldIndices, getFieldData, findAllLocalDataBlocks, findFieldsInLocalBlock, extract*Subfield* |
| Process execution | `cpp/lib/ExecUtil.cc`, `lib/ExecUtil.cc` | child pid, `alarm_went_off`, SIGALRM handler, alarm | Exec (fork, exec, wait4, timeout kill), Spawn, Which |
| Print/online merge (pipelines) | `cpp/pipelines/merge_print_and_online.cc` | ppn_to_offset, ppn_to_canonical_ppn, canonical_ppn_to_ppn multimap | collect pass, elimination of dangling groups, merge pass, uplink patching, sanity check, DB patches |
| Print/online merge (older) | `cpp/merge_print_and_online.cc` | offset map, ppn_to_ppn, ISSN map | CollectMappings, PatchUplink, MergeRecords, ProcessRecords, DB patches |
| Journal alerts | `cpp/new_journal_alert.cc` | subscriptions with max_last_modification_time (MySQL), notified ids (Kyoto DB) | GetNewIssues, SendNotificationEmail, subscription update, RecordNewlyNotifiedIds |
| K10plus PPN patching | `cpp/pipelines/patch_up_ppns_for_k10plus.cc` | DB tables, notified DB, persistent map of processed PPNs | PatchTable, PatchNotifiedDB, --store-only |
| Record filters | `cpp/delete_ids.cc`, `cpp/fix_article_biblio_levels.cc`, `cpp/flag_records_as_available_in_tuebingen.cc`, `cpp/count_gnd_refs.cc` | sets of PPNs collected in a first pass | two-pass record rewriting over the MARC record API |
| Helpers | `ControlNumberGuesser.cc`, `StringDataSource.cc`, `TimeUtil.cc` | key-value maps, a cursor, none | FindDups, get/peek/putback, date arithmetic |
| Monitor viewer | `cpp/system_monitor_viewer.cc` | the sorted log data, the range iterators, the values of the current plot line | ParseTimeRange, LoadSystemMonitorLog, GetDataRange, CalculateBestTimeScale, WritePlotDataToDisk |
| I/O glue | `zts_client.cc`, `convert_dakar.cc`, `Downloader.cc`, `bib_ref_to_codes_tool.cc`, headers | network, SQL | not modelled (see PROJECT.json) |

The programs are single-threaded. The hard behaviours are these:
- the long sequences of edits applied to one record, over an append-only buffer;
- the order in which records, and the cross links between them, are met in a file;
- the SIGALRM timeout racing the child's exit in ExecUtil;
- a crash between steps that persist state (an e-mail sent, a DB row updated, a Kyoto DB written).

## Modules

### MarcFields: what a record promises

The record is a sequence of `[tag, value]` fields. InsertField puts a field after every leading field whose tag is not greater. UpdateField replaces a value, DeleteField removes a field, and FilterTags removes every field whose tag is in the drop set. Combine appends all fields of another record except its first. This is the abstract specification. Only MarcRecord refers to it.

### MarcRecord: directory over an append-only buffer

`dir` is `directory_entries_` and `raw` is `raw_data_`. Field contents are short sequences of abstract bytes:
- `FT` is the terminator `\x1E`;
- `LokHeader` stands for the 7-byte prefix `"  \x1F0000"` that opens an embedded local record;
- `"d"` stands for any other byte.

Indices are the code's 0-based `size_t` values. The actions `insertField`, `updateField`, `deleteField`, `filterTags` (with its `deleteFields`) and `combine` are the methods, each as a whole. The queries are operators:
- `getFieldIndex`;
- `getFieldData` with its address guard;
- `getFieldIndices`;
- `findAllLocalDataBlocks`.

The guard `cbegin() + index >= cend()` is modelled on addresses modulo `2^Width`, so `FIELD_NOT_FOUND` wraps as it does in the build. The header declaring `FIELD_NOT_FOUND` is not in this source set. Its value is taken as the largest `size_t`, the value every comparison in the code treats it as.

The refinement mapping reads every entry back through getFieldData: `fields <- FieldsOf(dir, raw)`.

### MergePrintOnline: cross link grouping and merging

- `input` is the MARC file.
- `pc` is the phase: collect, merge, done, or failed (LOG_ERROR).
- `pos` is the reader position.
- `offsets` is the key set of `ppn_to_offset_map`.
- `p2c` and `c2p` are the two maps.
- `merged_count`, `unprocessed` and `written` are as in the code.

Each action is one iteration of a loop of the code, or a whole function:
- `CollectRecord`;
- `EliminateDanglingOrUnreferencedCrossLinks`;
- `MergeRecord`;
- `SanityCheck`;
- `ConnectDb`, `PatchSerialSubscriptions`, `PatchPDASubscriptions`, `PatchResourceTable`.

`Expand` is the range-for over the growing `std::set`. It visits only elements larger than the current one, as `std::set` iteration does. A merged record is the set of PPNs merged into it. Its uplink is that of the canonical record.

After the sanity check, Main patches three VuFind tables through `ppn_to_canonical_ppn_map`. `subs`, `pda` and `resource` hold their rows, and `db0` keeps the tables as Main found them:
- `ConnectDb` is the connection: the tables may hold anything (`Databases`);
- `PatchSerialSubscriptions` folds `PatchSubscriptionsOf` over the map entries, in every order, since an `unordered_map` fixes none;
- `PatchPDASubscriptions` is the SELECT and UPDATE pair as written;
- `PatchResourceTable` renames every mapped `record_id`.

Two of these do not do what they say. The UPDATE in PatchSerialSubscriptions only fires when the remaining subscription is already the earliest, so it never lowers its time (`SubscriptionKeepsEarliest`). PatchPDASubscriptions updates nothing (`PdaFollowsMerge`). TLC violates both properties when they are added to the `merge_reciprocal` cfg; they are recorded as hazards.

### MergePrintOnlineLegacy: the older merge tool

This module models `src/cpp/merge_print_and_online.cc`, which the pipelines tool replaced. It keeps the same record shape, with ISSNs, the 776 partner PPNs and the 029 ISSN references added. Its three passes are the actions:
- `PopulateISSN` and `EndISSNPass`: `issn_map` is `issn_to_control_number_map`, and `@@` keeps the first serial, as `emplace` does;
- `CollectMappings`, `EndCollectPass` and `EraseMissingPartners`:
  - `offsets` is `control_number_to_offset_map`, with offsets as record indices;
  - `p2p` is `ppn_to_ppn_map`, keyed by the smaller PPN (`MapPair`);
  - a record without a 776 partner is paired through its 029 ISSNs (`PairThroughISSNs`);
  - partners missing from the file are erased and listed in `missing`;
- `ProcessRecord` and `EndProcessPass`: a PPN among the values of `p2p` is skipped, a key of `offsets` is merged with the record at that offset, and any other record goes through `PatchUplink`.

`PatchUplink(u) == u`. The function iterates with `for (auto field : *record)`, and spec.md gives a record deep value semantics, so each field is a copy and the patched copy is discarded. The pipelines version iterates with `field->` and does change the record.

### ControlNumberGuesser: duplicate detection over three key-value DBs

This module models the class in `src/cpp/lib/src/ControlNumberGuesser.cc`. Its state is:
- the three Kyoto Cabinet DBs (`titles_db`, `authors_db`, `years_db`). Each value is kept as the set of control numbers it holds, because every reader splits the `'\0'`-joined list or the fixed-width year slots into a set;
- the three cursors, each kept as the set of keys it has passed. A null cursor is `{}`, because a new one `jump()`s to the first record;
- the two maps `getControlNumberPartners` builds lazily (`cn_sets`, `year_sets`);
- `pc`, which becomes "aborted" when `LOG_ERROR` exits.

A client calls the public operations in any order, and each is an action:
- `InsertTitle`, `InsertAuthors`, `InsertYear`;
- `GetNextTitle`, `GetNextAuthor`, `GetNextYear`;
- `GetControlNumberPartners`. It runs `InitControlNumberToControlNumberSetMap` (`FindDups`, over every order of the titles) while its map is empty, and, when years are used, `InitControlNumberToYearControlNumberSetMap`. Both drive the same cursors the client iterates with.

`GetGuessedControlNumbers` and `Lookup*` are operators. `NormaliseTitle` and `NormaliseAuthorName` are tables of which spellings share a key. The MC's tables follow what the functions do: punctuation and `-` become separators, case is folded, "last, first" is swapped, and a blank name becomes `""`.

Two ghost variables serve the properties: `indexed` (the keys each control number was inserted under) and `title_iter` (what the client's current getNextTitle loop has received).

### ExecUtil: fork, wait and timeout

This module models `Exec` of `cpp/lib/ExecUtil.cc`. `ExecUtil::Exec` is its WAIT mode and `Spawn` its DETACH mode. There are four actors, each with its own variables:
- **The parent:**
  - `ppc` is its position in `Exec`;
  - `result` is what `Exec` returned or threw;
  - `status` is `child_exit_status` after `wait4`;
  - `alarm_went_off` is the static flag.
- **The child:** `child` moves from forked to session leader, running, zombie and reaped; `ran` records that `execv` succeeded; `cstatus` is its exit status.
- **A descendant:** one the command may leave running in its process group.
- **The kernel:** `timer` is the pending alarm, and `stranger` is a process that may be given the pid once it is free.

The parent's actions follow the code in order:
- `ExecStart` covers `access`, the DETACH check, `fork` and arming the alarm;
- `Wait4`;
- `TimeoutCheck` covers `alarm(0)`, the flag and `kill(-pid)`;
- `ReapGroup`;
- `ExitStatus`.

The child's actions are `Setsid` and `ChildExec`. `_exit(-1)` is modelled by what the kernel reports: status 255.

`AlarmFires` runs the handler and leaves the parent where it was. glibc's `signal()` installs handlers with SA_RESTART, so the blocked `wait4` is restarted, not interrupted.

`ExecReturns` says that every call returns or throws. The `exec` run checks it in every mode with commands that exit. A descendant with no fairness may run forever there, so a `wait4` that waited for the whole group would hang. `TimeoutEndsExec` is the promise of the timeout: a call with a timeout returns even when the command never exits. `exec_hang` shows it violated.

There is no property that `kill(-pid)` reaches the group. The kill runs only after `wait4` has reaped the child, so it can reach only descendants, and the model's `Kill` reaches them all. A property about it would restate `Kill`.

The older `Exec` of `lib/ExecUtil.cc` is the mode LEGACY. Its actions are `LegacyExecStart` (`access`, `fork`), `LegacyChildExec` (the redirection and `execv`, without `setsid`), `LegacyWait4` and `LegacyExitStatus`. It has no timeout. Its child stays in the caller's process group, so no process group carries its pid. `StatusOutcome` is the status interpretation the two versions share.

### NewJournalAlert: repeated alert runs against a growing index

This module models `new_journal_alert.cc` run again and again by cron. The persistent state is:
- `stored`: each subscription's `max_last_modification_time` in MySQL;
- `notified`: the Kyoto notified database, keyed by issue id only;
- `offered`: the (user, issue) pairs handed to the mail server.

The state of a run is:
- `pc`;
- the users still to do;
- the current user's subscription objects (`work`);
- `new_issue_infos` (`infos`);
- the pending UPDATEs;
- `new_notification_ids`.

The actions are:
- `StartRun`: Main;
- `CollectNewIssues`: ProcessSingleUser's collection loop, with `GetNewIssues`/`QueryMember` folded over the serials of a subscription in bundle order;
- `SendNotificationEmail`: a success, or a LOG_ERROR that ends the run;
- `UpdateSubscription`: one UPDATE;
- `RecordNewlyNotifiedId`: one `add`;
- `EndRun`;
- `Crash`: the run dies between steps.

The import is `IndexIssue` and `ModifyIssue`, which stamp an issue with the clock. Two switches control it. `SameSecond` lets two issues share a second. `ImportInRun` lets the import run during an alert run.

`NoIssueMissed` is about the order of the steps of a run. The e-mail is sent before the UPDATE raises the stored time, and the notified ids are recorded only at the end of the run. So neither a run that dies at any step nor a modified issue leaves an issue behind the stored time un-e-mailed. The `alert` run keeps `SameSecond` and `ImportInRun` FALSE, and there the property holds. With either switch set, TLC violates it: the exclusive lower bound of the Solr query, or an issue indexed between two users of one run, skips an issue. Those cases are hazards of their own.

Dates keep their two formats: MySQL's and Solr's Zulu form. `ConvertDateToZuluDate` and `ConvertDateFromZuluDate` change the format.

### PatchUpPPNs: re-keying the databases after the K10plus migration

This module models `pipelines/patch_up_ppns_for_k10plus.cc`, run by the pipeline on each new dump.

The persistent state:
- `map` is the file of processed (old PPN, sigil) pairs.
- `rows` holds, for each table, the set of values in its patched column.
- `notified` holds the keys of the notified databases.

One run is a sequence of actions in the code's order:
- `Start` reads the map unless the run is --store-only, and runs `LoadMapping` on the dump.
- A run with nothing to do ends here. So does a --store-only run, after `StoreOnlyMap` has written its pairs.
- `PatchNotifiedDB` takes four actions, one for each branch:
  - `NotifiedDBMissing`;
  - `RemoveNotified`;
  - `AddNotified`, which adds back the old key, as the code does;
  - `SkipNotified`.
- `PatchTable` takes two actions:
  - `PatchTableUpdate` is one `UPDATE IGNORE`, with the extra COMMIT once `batch_size + 1 >= MAX_BATCH_SIZE`;
  - `PatchTableCommit` is the final COMMIT.
- `Finish` merges the pairs into the map and serialises it.

`Crash` ends a run at any step:
- MySQL rolls back the open transaction (`txn`);
- a key removed from a notified database stays removed.

`ignored` records the (table, PPN) rows that `UPDATE IGNORE` left alone because a unique key already held the new PPN. `stored_only` records the pairs that a --store-only run added.

That a --store-only run replaces the map file is what its usage text says, and no property checks it: it is the guard of `ReadMap` itself.

### FixArticleBiblioLevels, FlagRecordsTue and RecordPipeline: two two-pass record tools

`FixArticleBiblioLevels` models `fix_article_biblio_levels.cc`:
- `RecordSerialControlNumbers` and `NextInput` are pass 1 over every input.
- `PatchUpArticle` is pass 2 over the rewound first input, with `PatchedLevel` the leader[7] change.
- `HasSerialParent` looks only at the first field of each tag and its first `$w`.

`FlagRecordsTue` models `flag_records_as_available_in_tuebingen.cc`:
- `ProcessSuperiorRecord` and `Rewind` are `LoadDE21PPNs`.
- `ProcessRecord` is `AugmentRecords`, with `ProcessedRecord` deciding the flag.
- `CollectSuperiorPPNs` strips only a `(DE-576)` prefix.
- A record carries only what these tools read:
  - its control number, leader[7] and linking fields, each with its `$w` (sigil, id) values;
  - its SPR field;
  - the `852 $a` values of its local blocks;
  - its number of ITA fields.
- `Leader::isArticle()` is not in the repository. The constant `ArticleLevels` stands for the levels it accepts, and the run assumes `a` and `b`.

`RecordPipeline` runs the second tool on the output of the first. It does so by sharing the variable: `INSTANCE FlagRecordsTue WITH flag_in <- fix_out`.

### DeleteIds: deleting records and local records by id

This module models `delete_ids.cc`.
- **`ReadListLine`** is one `fgets` line of the deletion list. The id keeps the newline `fgets` reads.
- **`ReadRecord`** covers the 001 check and the title lookup. It writes a listed record and drops any other.
- **`EraseLocalMatch`** is one iteration of the `MatchLocalID` loop:
  - the check of the field before the match, whose condition is inverted;
  - the scan for the next header;
  - the erase of `dir_entries` alone. `field_data` keeps every field, so later indices point at the wrong contents.
- **`LocalDone`** covers the second write.

An erase whose end lies past the entries is undefined behaviour. `EraseOutcomes` gives two outcomes for it:
- what libstdc++ does;
- what a bounds-checked erase would do.

### SystemMonitorViewer: plotting a range of the system monitor log

This module models `Main` of `system_monitor_viewer.cc` from `ParseTimeRange` on. A time string is abstracted to the `time_t` that `ParseTimestamp` and `mktime` make of it.
- **`ParseTimeRange`** covers the three kinds of range and their errors. A single time point leaves `time_end` at `BAD_TIME_T`.
- **`LoadEntry`** is one iteration of the read loop of `LoadSystemMonitorLog`. An entry cut short is skipped; an unknown ordinal is `LOG_ERROR`.
- **`LoadDone`** is the trailing `std::sort`. It is not stable, so `SortedOrders` gives every order of equal timestamps.
- **`SelectRange`** is `GetDataRange`, `CalculateBestTimeScale` and the check that data was found. `RangeEnd` moves an `end()` result back onto the last element, as the code does.
- **`PrintClosest`** is the single-point loop, which never advances its iterator.
- **`WriteStep`** and **`WriteDone`** are the loop of `WritePlotDataToDisk` and the line after it. A line is its timestamp, the scaled first column (`Scaled`, with the code's operator precedence) and one column per label. An iterator run past `end()`, which a reversed range causes, ends the run in `crash`.

`MainReturns` and `PlotCoversRange` say what the usage promises. TLC violates both: the first under `MCSystemMonitorViewerHang.cfg` (the point loop never ends), the second under `MCSystemMonitorViewerCover.cfg` (the last data point is never plotted).

The product of "last n unit" is formed in `unsigned int` in the code and wraps for n above about 1.19 million hours. TLC's integers are 32-bit, so the model takes the product exactly and the requests keep it small. The wrap is left to the README and not checked.

### TimeUtil: date arithmetic against a reference calendar

This module models the date arithmetic of `TimeUtil.cc` as operators, and a caller that moves a time with `AddDays` as the only action. A `time_t` is a pair `[d, s]`: days since 1970-01-01 and seconds into the day. TLC's integers are 32-bit, and the pair keeps times past 2038 within them. A `struct tm` is a record with `year` counted from 1900 and `mon` from 0.
- **The reference** is gmtime and timegm of the C library, written from the Gregorian rules: `DaysBeforeYear` counts leap years, and the recursive `YearOf`, `MonthOf` and `DaysBeforeMonth` walk years and months. None of it is code of the repository, and none of it shares the code's formulas.
- **`GetJulianDayNumber`** and **`JulianDayNumberToYearMonthAndDay`** work on twice the Julian day. That number is an integer because the code's doubles are multiples of 1/2. Each `static_cast` of a product with 365.25 or 30.6001 becomes an integer division of a rational with the same floor (for example 30.6001·k as 306001·k div 10000).
- **`TmDays`** is the day count both `_mkgmtime` and `UTCStructTmToTimeT` form. C's `/` and `%` truncate towards zero (`CDiv`, `CMod`), so a negative month borrows a year, as the code's comment says.
- **`_mkgmtime`** forms the sum in `int`. A sum above INT_MAX is signed overflow; the builds wrap it modulo 2^32 (`IntSum`), and then the `rt < 0` test returns -1.
- **`TimeGm`** is `mktime` with `TZ=UTC`, which is timegm. The debug line it prints to cerr is left out.
- **`AddDays`** is gmtime, the two Julian day conversions and `TimeGm`. **`CallAddDays`** adds one of `Offsets` days, at most `MaxCalls` times. No program in the repository calls `AddDays`, so this caller is a test harness that stands for any caller, and it has no entry in the map.

`AddDaysAddsDays` says that after the calls the time is the start moved by the sum of the offsets. TLC violates it under `MCTimeUtilAddDays.cfg` in one step: 2000-01-15 minus one day gives 2000-01-13. `GetJulianDayNumber` leaves out the step of the cited algorithm that counts January and February as months 13 and 14 of the year before. The result is one day low in January and two days low in February. `MkgmtimeRightOrBad` says that `_mkgmtime` returns the right time or -1. TLC violates it under `MCTimeUtilMkgmtime.cfg`, whose starts lie past the `int` range. From 2038 on the wrapped sum is negative, and -1 is returned. At 2106-02-07 06:28:16 (2^32 seconds) the wrapped sum is 0 and 1970-01-01 is returned.

## Runs

| Run | Checks | Shows |
|---|---|---|
| marc_record (pass) | TypeOK, EntriesInsideRawData, AbstractSpec | the buffer bookkeeping of every mutation is right, and the record refines MarcFields |
| merge_reciprocal (pass) | TypeOK, MapsMirror, NoRecordLost, NoRecordWrittenTwice, UplinksResolve, SubscriptionsFollowMerge, ResourcesFollowMerge | with reciprocal links, in any order, nothing is lost or duplicated and uplinks resolve; afterwards every user keeps exactly one subscription per merged serial, on its canonical PPN, and resource rows follow the merge |
| exec (pass) | TypeOK, ExecReturns | with commands that exit on their own, every call returns or throws in every mode (Exec with and without a timeout, Spawn, the older Exec). This holds also while a descendant keeps running and when the alarm goes off during wait4 |
| exec_hang (violation) | TimeoutEndsExec | a command that never exits keeps Exec in wait4 forever, timeout or not: the alarm does not interrupt it |
| alert (pass) | TypeOK, NoIssueMissed, EmailNeverRepeats, EveryIssueNotified | with the import idle during runs, distinct seconds and no bundles, the order of e-mail, UPDATE and recording the ids skips nothing and every issue eventually reaches every subscriber, across a run that dies; until a run dies, no user gets an issue twice, even after its record is modified |
| merge_legacy (pass) | TypeOK, NoRecordLost, NoRecordWrittenTwice | in the older tool, with reciprocal links, a 029 ISSN answered by a 776 link and a missing partner, in every order, every record is written exactly once |
| guesser (pass) | TypeOK, GuessedAreIndexedMatches, PartnersShareTitleAndAuthor | after any interleaving of inserts, cursor loops and partner queries, a guess returns exactly the control numbers indexed under the title, an author and the year, and FindDups only groups records that share a normalised title and author |
| patch_ppns (pass) | TypeOK, SwappedPPNsGone, EveryDumpedPPNRecorded | over three runs, any of them --store-only and one of them dying at any step, a pair in the map names a PPN that no table holds any more, except where UPDATE IGNORE kept it; every PPN of the latest dump is eventually recorded |
| pipeline (pass) | TypeOK, LevelsFollowSerialParents, FixKeepsTuebingenFlags | for every order of the first input, fix_article_biblio_levels writes each record once. It makes an article 'b' exactly when its first linking `$w` names a serial of any input. Flagging its output flags the same records as flagging the raw input |
| viewer (pass) | TypeOK, LinesCarryLatestValue, PlotLinesInRange | for logs out of order, with equal times, short and unknown entries, and every kind of range: each column holds its label's latest value at or before the line's time, and a shown plot has increasing times inside the range |
| timeutil (pass) | TypeOK, UTCStructTmToTimeTInvertsGmtime, JulianDaysInvert | at every time up to three AddDays calls reach from starts in 1970, around 2000, in 2038 and in 2100: the times stay at or after the epoch; UTCStructTmToTimeT inverts gmtime, also for a month out of 0..11; JulianDayNumberToYearMonthAndDay returns the date of the Julian day |
| delete_ids (violation) | DeletionListApplied | for every deletion list of the cfg, the output at the end lacks a record the list does not name: the title test is inverted, and the ids keep their newline. Which list the trace shows depends on TLC's search order |

Some properties stay in the modules without a run of their own, because the number of runs is kept small. TLC violates each of them when it is put in a cfg; `PROJECT.json` lists them under hazards:
- `LocalBlocksHoldOnlyLOK`;
- `FieldIndicesComplete`;
- `StatusIsTheCommands`;
- `NoStrangerSignalled`;
- `MissingTagReadsNothing`: `getFieldData` of a missing tag reads `directory_entries_[-1]` (cfg `MCMarcRecordMissingTag.cfg`);
- `UplinksFollowMerge`: in the older merge tool, an uplink to the larger, skipped PPN of a merged pair stays as it is (cfg `MCMergePrintOnlineLegacyUplink.cfg`);
- `NoIssueMissed` with a bundle: later bundle members are queried with the time raised by an earlier member (cfg `MCNewJournalAlertBundle.cfg`);
- `SubscriptionKeepsEarliest` and `PdaFollowsMerge`;
- `PartnersSymmetric`: FindDups overwrites the set of a control number that a later title groups again (three control numbers, two titles, seven inserts);
- `NoRecordLost` with any links: a one-way link to a PPN that is already canonical of a group loses that group's members (cfg `MCMergePrintOnlineAnyLinks.cfg`);
- `MainReturns` (cfg `MCSystemMonitorViewerHang.cfg`) and `PlotCoversRange` (cfg `MCSystemMonitorViewerCover.cfg`), described under SystemMonitorViewer;
- `AbstractSpec` with two-tag drop sets: filterTags leaves a run of the second tag that directly follows a run of the first (cfg `MCMarcRecordFilterPairs.cfg`). `marc_record` checks it with single tags;
- `AddDaysAddsDays` (cfg `MCTimeUtilAddDays.cfg`) and `MkgmtimeRightOrBad` (cfg `MCTimeUtilMkgmtime.cfg`), described under TimeUtil;
- `TitleIterationVisitsEachOnce`: a partner query inside a getNextTitle loop resets the shared cursor, so the loop gets the first title again, and with no duplicates it never ends (four steps).

In the same way, `alert` keeps `SameSecond` and `ImportInRun` FALSE. Either switch set to TRUE makes TLC violate `NoIssueMissed`, and a run that dies makes the next one re-send e-mails.

Bounds:
- **MarcRecord:**
  - at most 4 entries and 10 buffer bytes;
  - three contents, one of them a header;
  - tags 001 < 245 < LOK < SPR.

  These bounds reach every mutation after every other up to depth 6: two inserts then a combine, updates of combined fields, filtering after an insert. That is enough for every violation above, each found within 2–3 steps.
- **MergePrintOnline:**
  - three serials linked in every reciprocal pattern (pairs, chains, triangles), plus a link to a PPN missing from the file;
  - an article with an uplink;
  - every order of the four records;
  - one file with a duplicate PPN.

  - after the merge, one user's subscriptions to any subset of the serials, with times 1 or 2, and a PDA and a resource row for one serial.

  Three serials are the fewest that can form a group reached through a third record. That third record is where the grouping code goes wrong.

- **MergePrintOnlineLegacy:**
  - six records: a reciprocal pair, a pair linked by a 776 from the larger PPN and a 029 from the smaller one, a serial whose partner is missing, and an article;
  - every order of the file (720), with three uplinks for the article.

  These reach every branch of CollectMappings and ProcessRecords. The one-way case of `NoRecordLost` is left out of the passing run because `MCMergePrintOnlineAnyLinks.cfg` already shows the same loss in the newer tool. Here it is recorded as a hazard.

- **ControlNumberGuesser:**
  - three control numbers, under symmetry;
  - two spellings of one title, a second title, and a title that normalises to nothing;
  - two spellings of one author and a blank author;
  - two years;
  - at most 4 insert calls (`MaxCalls`), and getNextTitle loops of at most 2 titles (`MaxIter`).

  Four inserts are enough to put two control numbers under one title and give one of them and a third control number the same author, which is the case FindDups must not group. The same inserts can give a control number two years, which makes the year map's LOG_ERROR fire. `PartnersSymmetric` needs seven inserts: it was checked on that instance with `Years` empty.

- **ExecUtil:**
  - the three modes (WAIT, DETACH, LEGACY);
  - timeouts 0 and 1 (only zero versus non-zero matters to the code);
  - three child outcomes;
  - three exit statuses (exit 0, exit 3, signal 11), plus 248 in the status run;
  - a command that may leave a descendant.

  These cover every branch of `Exec`. They also cover the alarm firing before and after the child exits.

- **NewJournalAlert:**
  - two users, two serials, two issues and clock values 0..3;
  - both users subscribe to the first serial, and one user also to the second, directly or through a bundle of both;
  - at most one run dies.

  That is enough to index both issues, modify one, and run the program between and after. Two users are the fewest that can share the notified database.

- **PatchUpPPNs:**
  - two dumps. The first renames two PPNs and lists a third id under a sigil the regex refuses. The second is a merge: two old PPNs map onto one record.
  - two tables, one of them with a unique key;
  - one notified database that exists and one that does not;
  - `MAX_BATCH_SIZE` 2, so that the intermediate COMMIT happens;
  - three runs and one crash.

  These reach every branch of `PatchNotifiedDB` and `PatchTable`. They reach a crash after an intermediate COMMIT, an ignored update, and a --store-only run before and after a normal one.
- **RecordPipeline:**
  - five records in every order (120): articles with a `(DE-576)` parent, with a ZDB `$w` before it, and with a `(DE-627)` parent; a book component; a serial held in Tuebingen;
  - a second input with a serial held elsewhere and a record with a `DE-21-24` holding.
- **DeleteIds:**
  - four deletion lists, with and without a final newline, one of them also naming a local record;
  - three records: with a well-formed local record, with another one, and with a local record that has no header.
- **SystemMonitorViewer:**
  - four logs: out of time order with two labels at one time and labels missing at later times; two CPU values at one time and an entry cut short; an unknown ordinal; an empty log;
  - nine requests: last 1 day, last 1 hour, an unknown unit, two single points (exact and closest), a range inside the data, one past its end, a reversed one, and an unparsable string;
  - the metrics mem, cpu, disk and an unknown one.

  These reach every branch of `Main` after the argument checks. The times span more than two minutes, so the scale is not always SECOND.
- **TimeUtil:**
  - seven start times: 1970-01-15, where a year too few would leave the epoch; mid-January and the end of February in 2000 (a leap century), 2000-03-01, the last second of 1999, the day in January 2038 on which 2^31 seconds are passed, and 2100-02-28 (a century that is not a leap year);
  - offsets of -1, 1 and 31 days, and up to three calls.

  These cross a year, a month, a leap day, the 2038 limit of `int` and a non-leap century. Checking the round trips of `UTCStructTmToTimeT` also shifts the month by -24, -12 and +12, which reaches the borrow for a negative month. `MCTimeUtilMkgmtime.cfg` starts at 2038-01-18, at INT_MAX, at 2^32 seconds and at 2106-03-01. These are the two ends of the wrap of the `int` sum.

Fairness:
- MarcRecord, MergePrintOnline, MergePrintOnlineLegacy and ControlNumberGuesser assume none. Their runs check safety only, and those programs are sequential.
- ExecUtil has weak fairness on the parent's steps, the child's steps, the command's exit and the alarm: the scheduler runs a runnable process, and the kernel delivers a pending alarm. The command's descendant and the pid allocator get no fairness, because a daemon may run forever and a pid need never be reused. A command that hangs (`MayHang`) has no fairness on its exit by construction.
- PatchUpPPNs has weak fairness on starting a run and on the steps of a run: the pipeline invokes the tool on each new dump, and a live process goes on. `Crash` has none and is bounded by `MaxCrashes`. `EveryDumpedPPNRecorded` needs no more than that.
- SystemMonitorViewer has weak fairness on `Next`: Main is one sequential thread. `MainReturns` (violated under `MCSystemMonitorViewerHang.cfg`) needs it.
- TimeUtil assumes none. Its properties are invariants of each reached time.
- RecordPipeline and DeleteIds assume none. Their properties are about the final state.
- NewJournalAlert has weak fairness on every step of a run and on starting a run, because cron starts the program again and again. There is none on the import or on failures, and failures are bounded by `MaxCrashes`.

## Plan

In order of importance:
1. MarcRecord + MarcFields (done): the record core every tool uses.
2. MergePrintOnline (done, with the database patches).
3. ExecUtil (done, with the older src/lib/ExecUtil.cc as the LEGACY mode): the timeout kills the group, Exec returns, the pid-reuse and status-ambiguity findings.
4. NewJournalAlert (done): duplicate e-mail after a failed run, and three ways an issue is lost.
5. MergePrintOnlineLegacy (done for the record passes): PatchUplink edits copies. Its database patches are the functions MergePrintOnline models, but applied along ppn_to_ppn_map they move subscriptions and resources towards the PPN whose record is skipped. This is listed as a hazard.
6. PatchUpPPNs (done): the persistent processed map across runs with --store-only and crashes. Next: a property for what the notified databases should hold after a swap, once that intent is settled.
7. DeleteIds, FixArticleBiblioLevels, FlagRecords (done, the last two composed). Next: a passing DeleteIds run over what the code does, if a run slot frees up.
8. ControlNumberGuesser (done): the partner map, the shared cursors, guesses.
9. SystemMonitorViewer (done): range selection, the plot lines and both loops of Main.
10. TimeUtil (done for the date arithmetic): the Julian day conversions, AddDays, `_mkgmtime` in 32-bit int and UTCStructTmToTimeT, against a reference calendar. Next: StringDataSource's peek and putback, if a user of it enters the repository.

## Not modelled

- I/O glue: zts_client, convert_dakar, Downloader, bib_ref_to_codes_tool, simple_xml_parser_test and the headers.
- Text normalisation and field-level merging (MergeRecordPair, CanoniseText). Their output is strings the properties do not tell apart.
- count_gnd_refs: a counting loop over field 100 `$0` with a text report. Its only use of the record API is `getFieldData("100")`, whose missing-tag case is the MarcRecord hazard above.
- TimeUtil's string functions: the strftime and strptime wrappers, the ISO 8601 and RFC 822 parsers and `ConvertHumanDateTimeToTimeT`. They convert text through regular expressions and the C library, and no property tells their strings apart. The viewer model abstracts its own uses of them to the `time_t` they produce.
- StringDataSource: its only user, SimpleXmlParser, is not in the repository.
- system_monitor_viewer's `Usage`, ini file lookups and `DisplayPlot`, which only runs gnuplot and xdg-open.
- ExecUtil's `Which` and `SignalBlocker`: a path search and sigprocmask wrappers, with no state of their own.
- MarcRecord's subfield operations (`deleteSubfield`, `extract*Subfield*`, `findFieldsInLocalBlock`): field contents are abstract bytes in MarcRecord, and subfields would multiply the state space without a property that needs them.
