# soqute in TLA+

soqute is a package manager for Qt modules: it loads the metadata of some
repositories, selects packages and their dependencies, downloads their archives
and runs the archives' scripts, which copy files into an installation tree or
remove them from it. It is written with Qt: almost everything happens in slots
that an event loop calls, and what has to outlive a process is kept in files that
are written one after the other. These modules model that: the steps between
events, the writes between which a process can die, what two processes do to
the settings they share, and what becomes of an archive between the program that
makes it and the one that reads it.

Paths below are relative to `src/`.

## The system

| component | state it keeps | operations | talks to |
|---|---|---|---|
| `soqute/cmd/main.cpp` | the command, the exit code | find the command, set up defaults, load metadata, execute | everything below |
| commands (`soqute/cmd/*command*`) | options, the lists they compute | install, remove, update, config, buildsystem, search, show | calls into the core, then spins the event loop until an `Actor` is done |
| `core/loadmetadata` | requests, counters, local files | clean the cache, request, save and parse replies | `Cache`, `PackageList`, network callbacks |
| `core/cache` | `*.cache` files, `.cache.json`, `m_entries` | addEntry, cleanCache, isValid | the file system |
| `core/package`, `core/packagematcher` | `m_entities` | parse, findPackage, identifiers | `Versions` |
| `core/util_core` | none | compare versions, clean lists, install an archive's entry | lists, the file system |
| `core/dependencycalculator` | none | what a package needs, what needs it | `PackageList` |
| `core/downloader` | four lists of packages and replies | downloadAndInstall, networkDone, abort, installPackageEnd, finish | network callbacks, posted events to `JSInstaller`, its thread's `finished` |
| `core/jsinstaller` | the errors of the script it runs | install, remove, the `FileSystem` object scripts use | archives, the tree, `InstalledPackages` |
| `core/remover` | the packages to come | remove, removePackageEnd, finish | posted events to `JSInstaller` |
| `core/installedpackages` | keys in the settings | setPackageInstalled, setPackageUninstalled, isPackageInstalled | `QSettings` |
| `core/configurationhandler` | a copy of the settings | read and write each setting, defaults, two temporary overrides | `QSettings` shared with other processes |
| `common/actor` | isDone, isSuccess, the error | emitted by `LoadMetadata`, `Downloader`, `Remover` | the waiting command |
| `common/filesystem`, `common/json` | none | atomic writes, exceptions instead of return values | all of the above |
| `buildsystems/soqute.cmake` | none | runs `soqute buildsystem` | `main` |
| `Packager` | archives, `meta.json`, a server directory | copy files, write scripts, archive, append metadata | the metadata and scripts soqute reads, `KTar` |
| `karchive-qt4`: `KArchive` and its formats | a directory, the device, what is being written | open, write an entry in one call or in chunks, read an entry, close | the archive file, a save file or a temporary file |
| `karchive-qt4`: `KCompressionDevice` and its filters | buffers, the position, what the filter has seen | read, write, seek, atEnd, close | the compression libraries, the device beneath |
| `karchive-qt4`: `QSaveFile` | the new file, whether a write failed | write, flush, commit, cancelWriting | the file it replaces |

`wand/` is an empty `main`, `tests/` holds two test programs and their packages.
soqute and the Packager use KArchive for tar archives only; its other formats are
part of the same library in this repository. In this library's build for Qt 4 the
classes of `inqt5/` come with it; with Qt 5 soqute writes its own files through Qt's
`QSaveFile`.

What is hard to get right here, and to test:

- **Slots interleave.** Replies finish in any order. `abort()` of a reply calls
  `networkDone` from inside the loop that aborts. Two loops remove elements from
  the list they iterate over. An installation error reaches the job only by way of
  the end of a thread, and the thread is started by one of its two users.
- **Processes die between writes.** Cache files and their index, the tree, removal
  scripts and records are written one after the other; the next command reads what
  is there.
- **Copies get old.** Each process works on a copy of the cache's index and of the
  settings, read when it started.
- **A format is two programs.** What a writer puts down, offsets and lengths
  included, has to be what a reader looks for: also when entries are added to an
  archive in place, when data comes in chunks, and when the disk has filled on the way.
- **Buffers have ends.** A compression device passes data through buffers that are
  smaller than what is asked for, on both sides of a library that may keep what it
  was given: ends, errors and a way back to the start must be told apart.
- **Runs are repeated.** The Packager looks at hardly any result, and is run again
  over what earlier runs have left, here and on the server.
- **Lists are cut down.** Versions are dropped from lists of dependencies, the
  reverse calculation skips what it has seen, packages are installed in the order
  of their names: that nothing is missing in the end is not evident.

## Modules

| module | models | state and actions |
|---|---|---|
| `InstallJob` | the promise of an installation job (abstract) | plan, what is installed, phase |
| `Downloader` | `core/downloader`, the waiting loop of `installcommandbase.cpp`, the thread of `abstractinstaller` | one action per slot, and one per iteration of the two loops that change their list; `toDownload`, `unarrived`, `arrived` are the members of the same names; `installEvent` and `finishEvent` are posted events |
| `Cache` | `core/cache` | files, index and `m_entries`; operators for each write, used by |
| `LoadMetadata` | `core/loadmetadata`, a series of processes | constructor, clean-up, one action per reply, parse and write; `Crash` between any two; clock and configuration change in between |
| `PackageStore` | `core/jsinstaller`, `core/remover`, `installArchiveEntry`, the records | tree, temporary directory, scripts, records; one action per file operation of a script; install and remove commands one after the other, each may fail or die at any step |
| `Versions`, `PackageList` | `isVersionHigherThan`, `findPackage`, `cleanPackageList`, both dependency calculations | operators, with loops and recursion as recursive functions; the reverse calculation's is over the dependents of where it starts, since it has a value only where packages do not depend on each other in a circle |
| `Commands` | selection by the install and remove commands | metadata, the records' keys and values, how a command ended; a job gets through the first few of its packages |
| `Settings` | `core/configurationhandler`, `core/installedpackages` on a shared `QSettings`; `main.cpp` from arguments to exit code; config, buildsystem | the file, each process's copy; one action per write, which is `setValue` and `sync` |
| `ArchiveTree` | `KArchiveDirectory`: entries by path, `findOrCreate`, `copyTo` | operators |
| `TarFormat`, `ZipFormat`, `ArFormat`, `SevenZipFormat` | `ktar`, `kzip`, `kar`, `k7zip`: what opening makes of a file, what each call writes | operators; a file is a sequence of cells, and what refers to a place in it holds the place |
| `Archive` | `KArchive` and one file, in sessions | mode, device, its position, directory; one action per call, or per cell of a call whose writes may fail: `BeginWrite`, `WriteCell`, `FinishWrite`, `ReadEntry`, `Close`, `Crash` |
| `SevenZipHeader` | the header of `k7zip`, byte for byte | the list of items; `Written` and `Read` are `writeHeader` and `openArchive` |
| `AtomicFile` | the promise of a file that is replaced as a whole (abstract) | content, drafts |
| `SaveFile` | `QSaveFile` over a buffered `QTemporaryFile` | operators |
| `CompressionDevice` | `KCompressionDevice` and its filters, QIODevice's read buffer | operators: one per pass of their loops |
| `Devices` | a writer or a reader at a time on one compressed file; `KTar::fillTempFile` | one action per call and per step of closing; `DiskFreed`, commits that fail, `Crash` |
| `GetFiles` | `Packager/filegetters`: groups, files and dependencies by module | tables |
| `Packager` | `Packager/main.cpp`, run after run in one directory or several | stage, archives and `meta.json` here and on the server; one action per file operation that may fail, `Crash` between any two |
| `MC*` | instances for TLC | |
| `DownloaderProofs`, `LoadMetadataProofs`, `PackageStoreProofs`, `CommandsProofs`, `SettingsProofs`, `PackagerProofs`, `ArchiveProofs` (with `SevenZipHeader`'s), `DevicesProofs` | proofs | |

`LoadMetadata` extends `Cache`; `Commands` extends `PackageList`, which extends
`Versions`; `Downloader` instantiates `InstallJob` with a refinement mapping.
`Commands` takes jobs as something that gets through a prefix of its list: that this
is what a job does is what `Downloader` shows. `PackageStore` takes the lists as
given: what is in them is what `Commands` is about. `Settings` in turn leaves out
what jobs do to the tree. `Archive` extends the four formats, which extend
`ArchiveTree`; `Devices` extends `CompressionDevice`, which extends `SaveFile`, and
instantiates `AtomicFile`; `Packager` extends `GetFiles`. `Archive` takes of a save file
what `Devices` shows of it: a commit puts all of the new archive in place, or none, or,
with a full disk, a beginning (`Torn`).

Packages, repositories, urls, directories and files are model values. Versions are
not: their numbers are compared digit by digit as the regular expression captures
them. A package's files of one directory are one element of the tree. A version's
spelling, JSON, messages and progress are left out. An archive is cells: a header,
a piece of an entry's data, a mark; only in `SevenZipHeader` is it bytes, because what is
hard there is how many of them there are.

Operators whose comment begins with `faulty` are what the code might have been:
each property is broken by one of them, and they are used nowhere else.

## What is checked

Every property is written, with a comment, at the end of the module it is about.

### `downloader` (112,036 states)
Five packages (two over http, one `file://`, two without an url), all jobs of all
lengths in all orders. Five are enough for two neighbours without an url among
packages with one, and for an abort with a reply before and after the one at hand.
The urls of two packages end in the same name. Saving, TLS, credentials and installing
may each fail, and `saveToFile` looks neither at what `write` nor at what `close`
returns (`downloader.cpp:214`), so that a full disk may cut an archive short that counts
as saved (`SaveToFile`, `cutShort`). Checked: nothing is
installed before everything is downloaded (`InstallsOnlyCompleteDownloads`), no reply
is outstanding when the job is done (`DoneMeansAnswered`), success means that exactly
the packages with an url were installed (`SuccessIsComplete`, for which the list
filter must lose none of them), failure is final (`FailureIsFinal`), what is installed
is what this job fetched under the package's file name, its own archive if no other
package has that name, and whole unless a write was cut short (`OwnArchive`: never what
an earlier job left in the directory), `Downloader` implements
`InstallJob` (`KeepsPromise`) and the command leaves its loop once the network has
answered (`EndsOnceAnswered`).

### `metadata` (65,236 states)
Two http repositories and a local one, whose cache entry has another url than the
configuration; five configurations, one with a duplicate and an empty one; a clock
of three days and entries valid for one. Checked: what is parsed is fresh and the
right repository's (`ParsesFreshData`, where urls have files of their own and no
repository has another's url in its entry: `NamesDistinct`), success means that all was loaded
(`SuccessLoadsAll`), the clean-up keeps what is configured (`CleanKeepsListed`) and
can fail only after one that was cut short (`CleanFailsOnlyAfterInterruption`), and
every load ends (`LoadEnds`), for which its counter of requests must be right.

### `package_store` (278,179 states)
Two packages, one needing the other and sorting before it; each has a directory of
its own, under one name in both archives, and one in common with the other. Checked:
a record means files (`RecordedIsComplete`) and a removal script
(`RecordedIsRemovable`), dependencies are installed between commands
(`ClosedUnlessInterrupted`), files are in their own package's directories
(`NoForeignFiles`), a Remover that is done has removed the records of all it was asked
for and the files that their scripts name (`RemovalIsComplete`) and is done eventually unless there was an error
(`RemovalEndsUnlessError`). Some files of one package are named only by a pattern
(`Named`), which `FileSystem.remove` takes for a name: they stay. `NoForeignFiles` and
`ClosedUnlessInterrupted` leave out what follows a command that was cut short, and
`RemovalEndsUnlessError` the error that never ends. A disk may refuse any operation. The proofs are for any
number of packages.

### `commands` (21,330 states)
Three names, two platforms and the unset one, five lists of metadata (superseded
versions, duplicates, missing and circular dependencies, a diamond of dependencies with
a superseding version that has no url, none) that change between
commands. Checked: `findPackage` gives a version that none is higher than
(`PackageIsHighest`), the reverse calculation finds every dependent although it skips
(`ReverseFindsAll`, against a closure), an install command leaves no dependency of what
it installed unsatisfied (`InstallCloses`), a remove command no dependent
(`RemoveCloses`). Each is about what the code looks for: `InstallCloses` leaves out
metadata in which a package with an url is superseded by one without
(`SupersededByUrl`; in the list with the diamond it would be violated), where
`cleanPackagePointerList` keeps the latter and nothing is downloaded; `RemoveCloses`
takes for dependents what `DependsExactly` finds, so that dependents with a plus,
without a version or on other platforms may be left without what they need
(`dependencycalculator.cpp:101`).

### `settings` (2,031,489 states)
Up to four commands in two processes at a time, of thirteen command lines over two
repositories with a package each and two other settings. Four are enough for
something to be set, changed by one process and overwritten by another's old copy,
and read again. Checked: writes of different keys do not undo each other
(`KeysAreIndependent`), repositories are kept by commands in turn (`RepositoriesKept`),
a build system installs only if that was allowed since it started
(`BuildsystemAllowed`), an installation that exits with 0 has recorded what it could
find, or it was recorded since the process started and another withdrew it
(`InstallSucceeds`). What two processes can do to each other is left out by name: lists
that both append to (`alone`), defaults written over another's settings (`raced`).
`MaxRuns` bounds the processes started.

### `archive` (4,275,109 states)
Two sessions on an archive of each of the four formats: new ones, ones that the first
session made, and ones of other programs: a tar archive with an end mark, a zip archive
with an entry whose size is only in its index, and an ar archive with a table of names. Two writes of files, links and directories, in one call
or in chunks, of none or two cells; entries that are read in between; a disk that
fills and is freed, a process that dies before any cell. Two sessions are enough to add
to what another has made; two writes, for one that hides another, within a session or
across. Checked: what was written is what extracting the archive gives (`ReadsBack`),
entries stay where the directory of an open archive says they are (`EntriesInPlace`),
and an archive that is opened for writing only stays as it is until it is closed, and is
replaced then by contents of which every write was taken (`WriteOnlyIsAtomic`): by all
of them, or, if the disk is full when the save file is committed, by a beginning of them.
`qsavefile.cpp:302` closes the temporary file unchecked before it renames it, though its
documentation says that no partially written file is ever present (`:75-78`). `Held` bounds
how many cells may be in memory then: one is enough to lose an end mark or an index.

`ReadsBack` excludes what the code does not answer for, each by name (`Answers`): a tar
archive with an end mark that is added to (`ktar.cpp:481` writes behind the mark), a
zip archive that was read from after its last write (`kzip.cpp:804`), sessions in which
a write failed and which work on the archive itself, commits that a full disk
tore, and 7z archives in which an entry is empty or written over. Explicit directories of a zip archive are gone after it was
added to (`HidesForGood`).

### `sevenzip_header` (89,682 states)
Headers of up to nine items, four of them of any kind and size, so that vectors of bits
have one and two bytes and lengths take one to three; and numbers of up to five digits
of the values where a byte more is needed. Checked: a header reads as it was written
(`HeaderReadsBack`), and so does a number (`NumbersReadBack`) unless `readNumber` shifts
an `int` out of its range: the highest bit of a fourth byte set, or 36 bits and more
(`k7zip.cpp:568`), that is, sizes from two gigabytes on.

### `devices` (124,948 states)
Two sessions on a file of each format, around buffers of three and four cells; a write
or a read is smaller and larger than either. A writer has a disk of four sizes, one of
which may be freed while it writes, gives up after a failed write, as `KArchive` does,
or goes on, as anyone may; a commit may fail. A reader has files that are whole, cut
short, damaged or have something behind their end. Checked: what is read is what there
is, in order (`ReadsInOrder`), the end is not told before it (`EndIsTheEnd`), and a
writer implements `AtomicFile` (`SavesAtomically`): the old file, or all of the new one.

`AtomicFile` has a step `Tear`: `QSaveFile::commit` closes the temporary file, which
may have data in memory that the disk has no room for, and looks only at earlier errors
(`qsavefile.cpp:302`; `:76-78` says that `commit` fails when an error has occurred). A
beginning of the new file then takes the place of the old one; TLC reaches this
(without `Tear`, `SavesAtomically` is violated). A reader that has sought elsewhere
than to the start is left out of `ReadsInOrder` until it is at the start again
(`strayed`): `seek` to one cell back does nothing and returns true, to more it fails
(`kcompressiondevice.cpp:185`), which the class documents as "Use with care".

### `packager` (159,825 states)
Three runs of two modules in two versions, each of which has something the other has
not, in one directory or several, with up to two steps that fail or processes that
die anywhere, built with assertions and without. Three runs are one that fails, one
that makes up for it, and one in the middle of which clients look. Checked: what the
server's metadata lists can be fetched, but for archives that a run removed and then
failed to copy (`ListedIsThere`); a run in which nothing fails makes up for what
earlier ones left (`FinishedIsComplete`); what is listed stays listed while the file
is whole (`StaysListed`).

### Type invariants
`downloader`, `package_store` and `settings` have `TypeOK` among their invariants, and
the proofs have it for every instance, as they have those of `LoadMetadata` and `Packager`.
`Commands`, `Archive`, `Devices` and `SevenZipHeader` state theirs for the reader; they hold
on the instances above.

### Fairness and deadlock
Weak fairness is assumed of what a started process does by itself: `MainStep` (an
event that is posted is delivered; the event loop is spun until the job is done),
`WorkerEnds` (a thread told to exit does), `CommandStep`. Nothing is assumed of the
network, of users or of the clock: that requests are answered is a premise of
`EndsOnceAnswered` and `LoadEnds`. The other modules assume no fairness. Deadlock is checked
except in `downloader`, whose job ends or hangs (that it does not hang is
`EndsOnceAnswered`), and in `settings`, `archive`, `sevenzip_header`, `devices` and
`packager`, which stop at their bounds.

## What does not hold

Each of these is a run that TLC ends with a counterexample.

| run | what the code does |
|---|---|
| `metadata_clean` | `cache.cpp:117`: a process that dies while it purges a repository leaves an entry that makes every later `cleanCache` throw, and every command fail |
| `package_store_union` | `util_core.cpp:214`: of two packages that install `bin` the second wipes the first one's files |
| `packager_installable` | `Packager/main.cpp:85`: files listed with a directory are never copied, so that `plugins` of qtsvg is empty and not in the archive, but in its `install.js` |

Met on the way, without a run of their own. The models behave so where it matters to
them, and the properties name these cases where they leave them out:

- A job without a package to download never calls `finish()`, and the command waits
  for ever (`downloader.cpp:118`). A removal that meets an error waits for the end of a
  thread that was never started (`remover.cpp:20`).
- Of a version's first number only the last digit counts: 10 is not higher than 9
  (`util_core.cpp:78`).
- The target of an argument is not used by `remove` (`removecommand.cpp:88`).
- The loader gets its list of repositories before `--repository` is looked at
  (`main.cpp:91`); `--defaultplatform` and `--defaultversion` are not read.
- `addRepositoryUrl` drops duplicates from a list and then saves the other one
  (`configurationhandler.cpp:38-47`); `operation` is not initialized when `config` has no
  option (`configcommand.cpp:157,176`); the exit code 2 that `soqute.cmake:61` looks for
  is never returned (`main.cpp:115-118`).
- An archive that a full disk cut short counts as saved (`downloader.cpp:214`) and is
  installed. `Downloader` takes its installation for one that may succeed, fail or crash;
  what files a torn archive leaves in the tree is not modelled.
- Two packages whose urls end in the same name are installed from the archive that came
  last (`downloader.cpp:143`).
- Arguments that match nothing are not an error; an archive without `remove.js` ends in
  a null pointer (`jsinstaller.cpp:284`).
- An entry of a zip archive that is read between the last write and closing decides
  where the central headers go (`kzip.cpp:804`), and damages the archive.
- Damage that the first pass of a read meets is taken for the end of the data
  (`kcompressiondevice.cpp:278`), and `fillTempFile` succeeds with what came before it
  (`ktar.cpp:306`). A truncated file reads as its beginning; of concatenated gzip
  members only the first is read; `KNoneFilter` ends after its first buffer, so that a
  plain tar file of more than 8 KB is cut.
- Opening a 7z or zip file that is not one fails for `ReadWrite`, but closing it still
  writes; 7z archives with an empty file crash the reader; `KArchive::close` does not
  look at what `closeArchive` returned if the save file commits (`karchive.h:75`).
- In builds without assertions the metadata on the server never grows after the first
  run (`Packager/main.cpp:297`), in others a repeated run lists a version twice. The
  check for an archive that is there already looks for a name no archive has
  (`main.cpp:150`). That the old list is read before it is written again, though the file
  is opened with `ReadOnly | Truncate` (`main.cpp:297`), rests on Qt for Unix, which
  truncates only what it opens for writing; `Appended` relies on it. A directory in which
  another version was packaged gives that version's files (`main.cpp:85`). `remove.js` takes patterns literally, so that files
  that a pattern stands for stay. qtlinguisttools needs a `qcore` (`filegetters.cpp:606`).

## What is proved

TLAPS checks these for every value of the constants that the modules' named
assumptions allow: any packages, lists, directories, command lines, clocks and bounds.
An inductive invariant, where there is one, was first checked by TLC on the instance of
the run.

| module | theorems about properties of the runs |
|---|---|
| `DownloaderProofs` | `TypeOK`, `InstallsOnlyCompleteDownloads`, `DoneMeansAnswered`, `SuccessIsComplete`, `FailureIsFinal`, `OwnArchive`, `KeepsPromise` |
| `LoadMetadataProofs` | `ParsesFreshData`, `SuccessLoadsAll`, `CleanFailsOnlyAfterInterruption`, `CleanKeepsListed` |
| `PackageStoreProofs` | all but `RemovalEndsUnlessError` |
| `CommandsProofs` | `PackageIsHighest`, `ReverseFindsAll`, `RemoveCloses` |
| `SettingsProofs` | all |
| `PackagerProofs` | `ListedIsThere`, `FinishedIsComplete`, `StaysListed` |
| `ArchiveProofs` | `WriteOnlyIsAtomic`, `NumbersReadBack`, `EntriesInPlace` |
| `DevicesProofs` | all |

**`DownloaderProofs`**. The properties are not inductive: that a done job has no
reply outstanding depends on who may call `finish()`. `IInv` says what each phase of a
job implies for the others: before the requests nothing has happened
(`BeforeRequests`), while replies are outstanding nothing is installed and, unless
something failed, arrived and outstanding ones are what was requested
(`WhileFetching`), while a package is installed the request is what is installed, the
package and what is left (`WhileInstalling`), after the thread's end nothing is
(`AfterWorker`). `KeepsPromise` is the refinement of `InstallJob`.

`SuccessIsComplete` and `OwnArchive` need `Kept` besides. The filter removes elements
from the list it iterates over, so that its cursor skips the element behind a removed
one; what `Kept` says is that whatever has an url is still in the list, in the order of
the job, and that the file of a package that has arrived holds the archive of one that
has arrived and has that file name. `SuccessIsComplete` says "in the order of the job" by the places of the packages
(`InOrderOf`), which for a job without repetitions is the same as filtering it.

**`LoadMetadataProofs`**. What is parsed was put into a file by another process, which
may have died at any write. `IInv` has three parts. `Counts` says what `m_numRequests`
is in each phase: the replies that are outstanding, and one more while a reply's data is
being saved; `Loads`, that unless something failed the rest has been parsed. `Dated`
relates a file to its two descriptions: it is never older than the index or the
process's `m_entries` say, and it is of the repository that its name says. `Whole` says
that entries have files, but in the middle of a clean-up and after one that was cut
short. The proof showed that `NamesDistinct` has to
exclude a repository whose cache entry bears the url of another one: the premise did
not say so before.

**`PackageStoreProofs`**. All safety properties of `package_store`, for any packages,
directories and transitive acyclic dependencies. `IInv` adds that what is left of a
script is what is missing from the tree (`Installing`), what is left of a removal is
what is still there and nothing else needs it (`Removing`), that dependencies are
installed, in the queue or removed together (`Closing`), and that the temporary
directory holds only the entry at hand (`TempIsOwn`).

**`CommandsProofs`**. Here the work is in operators, which are loops over lists. The
provers know no induction rule that takes a predicate, so `Least` derives from the
well-foundedness of the natural numbers that a set of them has a least element, and
`Induction` and `UpTo` state induction for sets. A recursive function is a `CHOOSE`:
before it equals its equation, a function that does must be shown to exist
(`RecursionExists`, once for all loops over a list). With these:
`isVersionHigherThan` is a strict weak order (`VersionOrder`: also with one digit of
the first number, which makes versions equal but no circles); after each turn of the
loop of `findPackage` its result is a highest one of those that it has passed
(`Scanned`), which needs that order. For the reverse calculation, `Dependents` is shown
to be the least set closed under `DependsExactly` (its `Len(list)` rounds are enough,
because each round that is not the last adds one). Without circles the recursion goes
to packages with fewer dependents (`RankFalls`), so it has a value, and that value has
all of them (`FollowingFindsAll`): if the loop skips a package, it is in the list by
way of another one, and then its dependents are too. `RemoveCloses` follows, as the
list of the command is closed.

**`SettingsProofs`**. All properties of `settings`, for any number of processes, any
command lines and any bound. `IInv` adds what a copy has to do with the file: what it
holds was there since the process started (`Copies`), it is the file's content when
nobody else runs (`AloneCopy`), and a process about to write defaults is alone unless
a race is under way already (`FirstRun`); and what a command has yet to do
(`Lines`, `Pending`).

**`PackagerProofs`**. For any modules of the tables, any versions and builds, and any
number of runs and faults. What a run lists is there because of what it did long before:
`IInv` says that the modules it is done with have archives, that a `meta.json` in the
directory names a version that has them all (`Collected`), and that what it has uploaded
is on the server or among those known to have failed (`Uploaded`); so when it comes to
the metadata, all it adds is there. `FinishedIsComplete` has an invariant of its own,
`FInv`, about a run in which nothing has failed: its stage holds what it has copied and
nothing but what versions run in this directory have (`Staged`), and so do the archives
made of it (`Archived`) and what is on the server (`Sent`).

**`ArchiveProofs`**. `IInv` is what the four formats have to keep for `KArchive`: which
device a session works on (`Device`), and that the save file knows of each write that was
not taken (`ErrorKept`). Then a session for writing only cannot touch the archive but by
committing, and cannot commit after an error; what it commits is all of the new archive
or, with a full disk, a beginning of it.

The same module has the numbers of `SevenZipHeader`. `writeNumber` puts the number of
following bytes into the leading bits of the first one, and the highest bits of the
number into what is left of it. `NumbersReadBack` is proved case by case on how many
follow, for all values of the bytes; `IntsReadBack` is the same for ints, wherever in the
header they are.

`EntriesInPlace` (`EntriesStay`) is proved for any files of other programs, any number of
sessions and writes, sizes of any number of cells, and a disk that may fill at any cell.
It is not inductive: where an entry is depends on where KArchive thinks the last one ends, on what the
index that a session leaves says, and on what the next session makes of it. `PlacesInv`
has an invariant for each of the two formats.

- `TarInv`: entries are in front of `tarEnd`, and a write is behind it (`TarEntries`).
  While no write has failed, a session that has written nothing has the file it opened
  (`TarLogged`), without an end mark an entry is added at the end of a whole file
  (`TarAtEnd`), and what a session writes back is whole (`TarBack`). `TarWhole` is what
  makes the reader's positions true: each header's data is behind it, and another header
  or the mark behind that.
- `ZipInv`: entries are in front of `m_offset` (`ZipEntries`), those in the list have
  their local headers there (`ZipListed`), and the one that is written is the last of
  them (`ZipWriting`). While no write has failed, the first cells of the file are local
  headers and data (`LocalsEnd`), the list's sizes are those of the data (`ZipWritten`),
  and closing puts the index, which says the same, right behind them (`ZipIndex`). It is needed
  that `closeArchive` writes the sizes into headers that are in the file and nowhere
  else, and that the list has each entry's size by then: a size that
  is left unknown sends the reader to look for a signature. After a read that `closeArchive` does
  not undo (`kzip.cpp:804`) the index goes over the entries, so what is said of it is
  said of sessions without one (`moved`).

A session on a file that an earlier one left unfinished, or in which a write failed
while it worked on the archive itself, is one that KArchive makes no promise about
(`settled`). That what `openArchive` makes of a whole file is in place is shown by following its
loops. They are recursive functions of a position that only grows, and what they give is
proved by induction on the cells that are left. `ArchiveAssumption` says that files which
other programs made are whole (`TarWhole`, `ZipWhole`), that paths and sizes are what
they are, and that a file is not the value that stands for none; TLC evaluates it in the
run, whose files of other programs include a tar and a zip archive.

**`DevicesProofs`**. For any data, any files, any sizes of the buffers, of the writes and
of the reads, and any number of sessions. A call of a device is a loop whose turns depend
on what the buffers hold (`Iterate`). What a turn keeps, and that it makes less of what is left, are proved
of a turn, and of the loop by induction on the turns that are left; a bound that the
measure stays below shows that the loop stops by itself before the bound of the model.

`WriterInv` says that what the save file has been sent, the device's buffer and what the
library holds are together what was written (`Writing`), however the library splits it,
or that a filter or the save file knows of an error. So what is committed without an error has all of it,
which is `SavesAtomically`: each step of a session is a step of `AtomicFile` or none.

`ReaderInv` is about a file of any contents. `Located` says where in the file a reader is
that has been given so many cells: behind the opening mark and the data, at the mark that
its stage says (`AtStage`), or at the start if it has not looked at it yet; that it says
"end" only behind a whole file (`Complete`), and "error" only if there is no place where
the file is whole (`Incomplete`). `OnlyData` adds that what was given and what QIODevice
has read ahead are the data in front of that place, and what `fillTempFile` may conclude.
It is needed that an exhausted file without an end, a reader that has ended and one that
has failed can not be told apart by what was given before: that at most one place is the end
(`CompleteOnce`). `Readable` and `IsWhole`, which the properties speak of, are defined
by decoding the file in one go; `WholeIsComplete` and `CompleteIsWhole` show that both
mean the same files. The one assumption is `DevicesAssumption`: data has no marks of the
formats in it, `none` is only read, and sizes are numbers, of which no write or read
has 0.

Model-checked only, and why:

- `EndsOnceAnswered`, `LoadEnds`, `RemovalEndsUnlessError`: liveness rests on fairness,
  and that is out of this prover's reach.
- `InstallCloses`: it would take facts about two folds and a sort, which the provers have
  none of.
- `ReadsBack`, `HeaderReadsBack`: that a reader gives back, in order, all that was
  written, needs one inverse for each of a writer's loops. For 7z headers the parser's state is a
  record of vectors of different lengths; for zip and ar archives a reader's step depends on names
  met before. Of these, what `EntriesStay` and `IntsReadBack` say is proved: that
  whatever tar and zip readers do show is where they say, and that a header's numbers are
  read as they were written.

## What is not modelled

`search` and `show` change nothing. Terminal input and output, option parsing, JSON,
percentages. Scripts other than the Packager's and the tests' (`chmod`, `link`,
`rename`). `--outdir` and a changed `InstallRoot`, which move files and are not in the
records' keys. Two processes at a time on one tree or one cache: the models of those
take commands in turn.

Of KArchive: times and permissions; the decoders of 7z other than copying; an archive
object that is opened twice; the extra field of zip entries; entries named `.`; link
targets too long for a tar header; data that looks like a header. The order in which a
directory is extracted is left out, and `addLocalDirectory` is its `addLocalFile`s. The compression libraries are
modelled by how the filters use them: they keep what they take, or give it at once.
`KNoneFilter` is only read. The MIME database, the standard paths and the classes that
parse types are copies of Qt 5's that look things up; a type is what a session is
opened with.

Of the Packager: descriptions and native dependencies, other platforms, a build
without one of the directories that a group is searched in.

The hazards in `PROJECT.json` are the ones that a property is about or should be; the
disagreements listed above are not repeated there.

## Plan

1. `ReadsBack` for tar and zip archives, on top of `PlacesInv`: the entries of the tree
   are the last of those in the log at each path.
2. A proof of `InstallCloses`, with the order of the lists as a relation.
3. Two processes on one cache; an installation root that changes under the records.

## Running

    tlc -workers 2 -config MCDownloader.cfg MCDownloader
    tlapm DownloaderProofs.tla

`PROJECT.json` lists the runs, for each definition the lines it models, and the
hazards with the properties that cover them.
