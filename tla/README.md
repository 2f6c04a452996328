# Verification of the Downballot server

TLA+ specifications of the Downballot server (`src/`), the TLC configurations
that check them on small instances, and theorems about them that TLAPS proves.

Downballot keeps the voters of campaign organizations. Its server is a Go
program (`src/cmd/web`) that answers REST requests from one SQLite database
through gorm. What makes it hard to test is that `net/http` runs every request
in a goroutine of its own, and that a handler is a sequence of database
statements of which only some are inside `meta.DB.Transaction(...)`: every
statement outside of one is a step of its own, and other requests act in between.

## 1. The system

| Component | State | Operations | Where it is hard | What makes it correct |
|---|---|---|---|---|
| Person store (`api-organization-id-person-{id,update,import}.go`) | tables `person`, `person_field`, `person_audit` | PATCH and DELETE of a person, bulk update, import of a sheet | values, old values and existence are read before the transaction; imports span many statements | no orphaned rows; no silent change; the trail ends in the stored value; nobody is changed or deleted who was not asked for; imports are all or nothing |
| Field definitions (`api-organization-id-personfield*.go`, `schema/person-field.go`) | `person_field_definition` | create, rename, change the type | stored text and requests in flight refer to old definitions | stored values were accepted by some definition |
| Person listing (`helper-person.go`, `api-organization-id-person.go`, `-group-id-person.go`, `-grouppersoncount.go`) | none, reads the tables above and the groups | list of the organization, list of a group, counts per group | four to six reads at different moments; condensing of hierarchies | every answer is that of one moment; errors have a cause |
| Filter language (`filter/`) | none | tokenize, parse, print, validate, translate to SQL | one pass with an open AND group; printing quotes what reading may not unquote; filters are joined as texts; comparisons depend on the type of a field | what is typed means what it says; the canonical form reads back; joined filters do not reach into each other |
| Group tree (`api-organization-id-group*.go`, `helper-group.go`) | table `group` with `parent_id` and `filter` | create, move, delete with subtree, list | checks of a parent before the transaction; walks over parent IDs that need not end | a forest; users see exactly their subtrees |
| Group members (`...-group-id-user*.go`, `...-user-id-group.go`) | `user_group_map` with an owner flag | enroll, unenroll, set owner | read-then-write around a cascade | nobody is mapped to a group that is gone |
| Accounts (`api-user.go`) | table `user` | register | two registrations of one name | user names differ, whatever their case |
| Organizations and members (`api-organization*.go`, `...-id-user*.go`) | `organization`, `user_organization_map` | found, add, remove, set owner | permissions are a copy made when the request began; removal leaves enrolments and filters behind | only owners change members; enrolments begin and end on behalf of members; filters left behind stay their user's |
| Saved filters (`api-organization-id-filter*.go`) | `filter` | save, change, delete | looked up, with its user, before the transaction that names it by its ID | private filters are their user's |
| Permissions of a request (`downballotwrapper/`, `iam/`, `permissionset/`) | none beyond the request | roles to permissions; the table masks of `register-query.go` | the mask is a subselect evaluated at each statement, the permissions are not | what is shown belongs to the user |
| Authentication (`api-authentication.go`, `apitoken/`, `downballotwrapper/{token,user}.go`, `durationparser/`) | `user_totp`; mailed passwords; tokens in the hands of clients | mail a one-time password, log in with it or with a token, check a token | the clock moves between the mail, the login and the use; two mails at once | mailed passwords match; tokens come from mailed passwords, or from the system token |
| Static files and the API's documentation (`cmd/web/main.go`, `static/swagger/`) | files on the server; copies in browsers | serve with cache headers; load the page | ages are rounded to seconds, tags name minutes, deployments come in between, scripts fail to load | a page's files belong together |
| Column types, database and migration, routing, plumbing, API types, tests | | | | see section 8 |

How they interact. A request first passes the filter of `downballotwrapper`,
which validates the token (Authentication), finds the user and the roles
(Accounts), and puts masked tables in the request's metadata. Handlers of the
group tree compute from `group` and `user_group_map` which groups the user sees.
Handlers that list persons turn the same walks and the groups' filters into a
query over the person store, with the definitions as types. PATCH, DELETE and
import of persons start with such a query and then write. All interaction goes
through the database: there is no other shared memory, no callback and no queue.

## 2. The modules

| Module | Models | Uses |
|---|---|---|
| `PersonLedger` | what the person store promises: an abstract ledger of persons, values and audit entries where each step is one committed transaction | |
| `PersonRecords` | the person store and its definitions, statement by statement | implements `PersonLedger` |
| `PersonRecords_proofs` | theorems about `PersonRecords`: its tables, that it implements `PersonLedger`, its action properties, imports, stored values | extends it |
| `GroupWalks` | the pure walks of `helper-group.go` over parent IDs: ancestors, subtrees, visible groups, hierarchies, condensing, the two kinds of group list | |
| `GroupWalks_proofs` | what the walks compute, for all groups | extends it |
| `GroupTree` | groups and their members | extends `GroupWalks` |
| `GroupTree_proofs` | theorems about `GroupTree` | extends it and `GroupWalks_proofs` |
| `PersonScope` | the three listings of persons | extends `GroupWalks` |
| `PersonScope_proofs` | theorems about `PersonScope` | extends it and `GroupWalks_proofs` |
| `FilterLanguage` | the text of filters: tokens, clauses, joining | |
| `FilterLanguage_proofs` | theorems about `FilterLanguage` | extends it |
| `FilterPrinting` | the canonical form of a clause, printed and read again | extends `FilterLanguage` |
| `Authentication` | one-time passwords, tokens, durations | |
| `Authentication_proofs` | theorems about `Authentication` | extends it |
| `Accounts` | users, organizations, members, permissions | |
| `Members` | what members have in an organization: enrolment in its root group, saved filters | extends and composes with `Accounts` |
| `Members_proofs` | theorems about `Accounts`, that the composition implements it, and theorems about that | extends `Members` |
| `StaticSite` | static files, browser caches, the documentation page | |
| `StaticSite_proofs` | its safety theorem | extends it |
| `MC*` | values of the constants for TLC | extend the module of that name; `MCMembers` serves `Accounts` too, `MCFilterLanguage` extends `FilterPrinting`, and `StaticSite` has its values in its `.cfg` |

`MC` modules only define values for constants. Operators that follow the one
they resemble (`CommitFieldsSilentDelete` beside `CommitFields`) are
what-if versions of the code with one plausible mistake: each property is
violated when one of them takes the place of the real definition, which shows
that the property depends on the code.

Common form. `pc[r]` is the statement that request `r` executes next, `status[r]`
its answer, `call[r]` its arguments, and the remaining functions of `r` are the
local variables of its handler that outlive a statement. `Answer` ends a request
and forgets its locals. Each request is made at most once; the constant `May[r]`
(`Kind[r]` in `PersonRecords`) says which endpoints it may call, with arguments
chosen by `\E` from small sets. An action is one statement or one transaction together
with all the code up to the next one; error returns are part of it.

### PersonRecords

| Code | Model |
|---|---|
| `person`, `person_field`, `person_audit` | `person`, `field`, `trail`, with `used` for autoIncrement |
| `person_field_definition` | `def`: a name and the set of strings that its type accepts |
| the filter `"voter_id = "` + path, unquoted, or the quoted list of a bulk update | `Text`: what the constants `PathReads` and `ListReads` say that this is read as |
| `filterPersons` (definitions, persons, fields) | `FilterDefinitions`, `FilterPersons` (`Hits`, and `Picks` for the limit), `FilterFields` |
| validation in PATCH and bulk update | `ReadDefinitions` (`ValidBody`); the second read of fields of a bulk update is `RereadFields` |
| the transaction of PATCH and bulk update | `CommitFields`: values that differ from the earlier read, in one step |
| DELETE | `CommitDelete`, with the cascade to fields and audit |
| import | `ImportDefinitions`, `ImportExisting`, `ImportBegin` (creates persons), one `ImportRow` per row, `ImportCommit` or `Rollback` |
| PATCH reads the person again and answers | `Reply` |
| definitions are created and changed | `CreateDefinition`, `UpdateDefinition`, at any time, at most `MaxEdits` times |
| the process stops | `Restart`: all requests in flight are lost, an open transaction is rolled back |

An import is the only handler whose transaction decides from what it reads inside
of it, so its transaction is a sequence of steps; `lock` says whose it is,
`work` holds what it has written, and the history `opened` the tables as it found them. The others decide nothing after their first
write: their transactions are one step. While `lock` is held no other
transaction commits; `Busy` is SQLite's error to those who try.

Strings are model values. `Fold` is what `collate nocase` compares: `"A1"` and
`"a1"` are different for Go and the same for the index and for `=` in SQL, which
decides whether a row of a sheet is new, whether the insertion fails and whom
DELETE reaches. What a path is read as is an OR of ANDs of `=` and `!=`, or `Nil` for a
text that is refused: a plain voter ID is one condition, but nothing keeps a path from
being longer than that.

### GroupWalks and GroupTree

`Above` and `Below` are the ancestors and the subtree of a group in a `parent`
function; `Visible` is what `getGroupsForUser` collects; `Hierarchy` is the path that
`getGroupHierarchiesForUser` builds from *two* readings of the table, as in the
code; `Condense` keeps the hierarchies no other one is a prefix of. `Endless`
says that a walk does not end, in which case the request stays in `"spinning"`.

| Code | Model |
|---|---|
| the three reads of `getGroupHierarchiesForUser` | `ReadFirst`, `ReadMapped`, `ReadGroups` |
| building of hierarchies, condensing and the answer | `BuildHierarchies` |
| POST, PATCH, DELETE of a group | `CreateGroup`, `PatchGroup`, `DeleteGroup`; `ReadMapped` and `ReadGroups` where a parent has to be visible; `CommitCreate`, `CommitPatch`, `CommitDelete` |
| POST, DELETE, PATCH of a user in a group | `EnrollUser` (with the same two reads), `UnenrollUser`, `SetOwner`; `CommitEnroll`, `CommitUnenroll`, `CommitSetOwner` |

The database's foreign keys appear in the commits: inserting or moving below a
group that is gone fails, deleting a group deletes its subtree and the
memberships in it.

### PersonScope

One reader and the concurrent edits that it can meet: `PatchGroup` (parent and
filter), `DeleteGroup`, `MapUser`, `EditDefinition`, `PatchPerson`, one of
each kind in the behaviour's plan (`Plans`). Each is a committed transaction of another request, reduced
to its effect. The reader's steps are its statements: for all listings
`ReadMapped` (with `CheckVisible` for the two that name groups), `ReadFirst`,
`ReadGroups`, `ReadDefinitions`, then `FilterPersons` and `ReadFields` or one
`FilterPersonsCount` per group.

`Clause` is a parsed filter: a condition on a field, a null test, AND or OR.
`Holds` is its meaning in SQL, where a condition is false for an absent value
and the comparison depends on the type of the field *as read by this request*
(coordinates are `Near` one another). Conditions without values and groups without
clauses add nothing to the query (`Absent`, `Adding`).
`Fails` is what makes the building of a query fail: a text that does not parse, a
field that is not defined, a pattern for coordinates that is not one (`Misplaced`).
Ages 9 and 10 compare differently as integers and as text, so a change of type shows.

The code joins filters and query as text and parses once; only the list of a group
checks its query before. A filter here is either the clause of a text that stands alone,
and what is joined of such texts means all of them (`JoinedMeansAll` of
`FilterLanguage`), or `Stray`: one that may reach into its neighbours. With a stray
text among them the join is read as *any* clause of `Readings`, or fails, and then the
answer may have persons that no group of the user has.

`moments` is a
history of everything the groups, maps and definitions have been since the
request arrived. Properties compare answers against it through `Meant`, a
reference definition without hierarchies: the persons of a group are those who
satisfy its filter and that of every group above it.

### Authentication

Time is in seconds, `Tick` advances it between any two steps. A code is the pair
of the secret and of the period it was generated in. `EmailFind`, `EmailTOTP`,
`EmailCreate` and `EmailSend` are the e-mail handler; `LoginStart`, `LoginTOTP`
and `LoginVerify` the login; `Filter` the check of a token on every request, and
`Use` any endpoint that needs a user. Requests of `Operator` may bear the system token,
which stands for the user `System` of no row, named `SystemName` (`"@system"`); a
registered user may have that name too, as user 2 of the instance does. `ExpiresAt` is `durationparser` with the
wrap-around of `time.Duration`, whose range is the constant `MaxDuration`;
`Valid` is `apitoken.Claims.Valid` with its special case for `ExpiresAt <= 0`.

### Accounts

`username`, `orgs` and `role` are the three tables; `grant[r]` the roles as the
filter read them for `r`, from which `Permitted` answers. `SeedRoles` are the memberships that a
behaviour may start with. `FilterUser`,
`ReadOrganization`, `ReadUser`, `ReadOwner` and `CheckUsername` are the reads of
the handlers, and there is one commit per handler. `MaskedRows(a, o)` is how
many rows the masked table `organization` has for `o` when `a` asks. `been` is
the history of who has been an owner of what.

### Members

`Members` extends `Accounts` with the tables of groups, their users and of filters, as far
as they concern an organization's members: `roots` (whose *root* group is there),
`enrolled` (who is in it; from there all other groups are seen),
`saved`, `issued`. `AccountStep` is a step of
`Accounts` with what it does to these tables: founding an organization creates its root group
and enrolls the first owner there (`RootOwners`), and removing a member does nothing to
them. Visits are the requests of this module: `VFilterUser`, `VReadOrganization`,
`VReadUser`, `VReadVisible`, `VReadGroup`, `VReadEnrolment` and `VReadFilter` are the reads before
and in the handlers, `CommitEnrolment`, `CommitWithdrawal`, `CommitDrop` (DELETE of the root
group, with its enrolments), `CommitFilter`, `CommitChange` and `CommitDiscard` the
transactions. `VReadGroup` is `hasGroup`, which accepts a group of any
organization of the visitor, whatever the path says. The two kinds of requests share
`role` and `orgs`, which is where they can hurt each other. `joined` is
a history. Members below the root group are `GroupTree`.

### FilterLanguage and FilterPrinting

| Code | Model |
|---|---|
| `Tokenize`, byte by byte | `ReadLetter`, one after the other (`Read`) over `BytesOf` the letters, with a line end after them |
| `readParentheticalGroup` | `Closes`: the first token after which one parenthesis less is open (`Level`) |
| `ParseTokens` | `Turn`, one turn of its loop, with `ParseOperand`; `Looped`, the loop; `Result`, what it returns; `ParseNested`, its calls of itself. `Failed` and `Panicked` are outcomes |
| conditions, lists, null tests | `ParseCondition`, `ListOf` |
| the joining in `buildPersonQuery` | `Conjunction`, `Disjunction` |
| `Clause.String`, `QuoteIfNecessary` | `SimpleString`, `GroupString`, `QuoteIfNecessary` of `FilterPrinting`; `Forms`, the recursion over groups |

These are pure; the behaviour is somebody typing. `text` grows by conditions, AND, OR
and parentheses while `stack` keeps what the author means by them, written from the
grammar and not from the parser; `Scribble` puts a letter out of place, after which
nothing is meant but printing and joining still have to be right. A word that the
parser knows is one letter, because only the whole word matters. `Looped` turns once for
each token outside of parentheses (`Outside`) and once more: every turn but the last takes
one of these, which the proofs show to be enough (`DepthEnough`, `LoopedInside`).

### StaticSite

The clock ticks `Second` times a second (halves, because ages are rounded), minutes
are `Minute` ticks. `Answers(f)` are the copies a browser may have after asking for
`f`: `MaxAges` is `max-age` with its rounding, `Answered` the answer 304 by the
minute's tag. `LoadCached`, `LoadFetched` and `LoadFailed` get the next file of the
page, `Onload` is `window.onload` of `swagger-initializer.js`, `LoadSpec` the request
of the bundle that it starts. `Deploy` replaces the files, `replaced` is
the history of when. What a browser does with a header is external and taken from
HTTP: fresh copies may be used, stale ones must be validated.

## 3. What the runs check

`CHECK_DEADLOCK FALSE` stands in every configuration because each request of a
behaviour is made once: when all have been answered, nothing more happens. Typing
(`filter_language`) and the clock (`static_site`) end at their bounds.

### Runs that pass

| Run | Question | Properties |
|---|---|---|
| `records_edit` | A PATCH, a bulk update and a DELETE race, with restarts. Is any row left of nobody, any change silent or in another's name, anyone deleted or changed who was not asked for? | `TypeOK`, `NoOrphans`, `TrailTellsValue`, `EveryChangeAudited`, `OnlyRequestedDeletes`, `UpdatesThoseNamed`, `ImplementsLedger` |
| `records_import` | Two imports that wait for one another and a DELETE race. Is an import all or nothing even when it is cut off, complete, its audit consistent, and does it end? | `UniqueVoterIDs`, `FailedImportChangesNothing`, `SuccessfulImportIsComplete`, `ImportAuditsChain`, `ImplementsLedger`, `EveryRequestEnds` |
| `records_definitions` | Definitions are created, renamed and retyped under an import and a PATCH. Is anything stored that no type ever accepted? | `StoredValuesAccepted` |
| `groups` | Creations, moves, deletions, lists, enrolments and flag changes of two users race. Does anything dangle, does anyone see more or less than their subtrees, do the walks end as long as the groups form a forest? | `TypeOK`, `NothingDangles`, `VisibleAreSubtrees`, `ListUnfolds`, `PlacedWhereSeen`, `OnlyEnrolmentMaps`, `EveryRequestEnds` |
| `auth` | Two mails that may both create a secret, logins by password and by token, and a use of a token, across the ends of a period and of a token. Is a password ever mailed that does not match, is anyone served who got no mail, other than a namesake of the system? | `MailedPasswordsMatch`, `ServedAsMailed`, `TokensNeedMailedPassword` |
| `accounts` | Two spellings of a name, an organization being founded, and two members (the second an owner or not) who change members, each other included, with permissions that may be out of date, while others are enrolled, taken out, delete a root group, or save filters. What happens when the last owner goes, and who can end an enrolment? | `UsernamesDiffer`, `EnrolledWereMembers`, `EnrolmentsEndByInsiders`, `ChangedByOwners`, `RolesChangeAsAsked`, `OwnerlessStaysSo`, `FiltersStayTheirs` |
| `scope` | A group is listed, the whole list of a user with the root, two branches or nothing, or several groups are counted with one query each, while a group is moved, filtered or deleted, the user's groups change, or a definition and a value do. Is the answer that of one moment when its texts stand alone, and does it fail only for a reason? | `TypeOK`, `AnswersFromOneMoment`, `FailuresExplained` |
| `filter_language` | Does every text of the grammar mean what it says, does the canonical form of whatever is accepted read back, and do filters that stand alone stay apart when they are joined? | `ReadsAsWritten`, `CanonicalReadsBack`, `JoinedMeansAll` |
| `static_site` | The documentation is visited with a cache, over the ends of minutes, while new files are deployed and loads fail. Are its files of one version? | `PageOfOneMinute` |

`ImplementsLedger` is a refinement: with `Ledger == INSTANCE PersonLedger WITH ...` (its
variables are the committed tables) `PersonRecords` behaves as `LedgerSpec`, where the whole of an
import, a PATCH or a bulk update is one `Write` of one user and a DELETE one
`Expunge`. Steps on uncommitted work, reads and answers are stutters.

### Runs that show a disagreement

Each checks one statement of a comment or error text of the code, and TLC
finds a behaviour of the code that contradicts it.

| Run | Statement | What happens |
|---|---|---|
| `records_stale` `NilOldMeansAdded` | `schema/person.go:48`, OldValue: "If this is nil, then the field was added." | The old value is from before the transaction. Two PATCHes of a field without a value both log nil, though the second changes what the first stored. |
| `groups_circular` `NoCircularParents` | error text "circular parent_id", `api-organization-id-group-id.go:116` | The check looks for duplicates in the list of visible groups, not at parents: one PATCH moves a group below its child. Walks up that circle do not end. |
| `auth_refresh` `NewTokensWork` | `api-authentication.go:149`: "...and receive a new token." | The new token carries the user's ID as session identifier, which no user has: it is refused everywhere. |

Met while modelling and not shown by a run of their own; the models do what the
code does in each case that they reach:

* `helper-group.go:90` says "Each hierarchy goes from the organization's root
  group to the bottom-level group". Groups are read twice: of two groups created
  in between, one below the other, the lower one has a hierarchy that starts at
  itself, without the filters above.
* `helper-group.go:148` says "we need to keep the most encompassing ones". A
  hierarchy without filters adds nothing to the OR (`helper-person.go:320`), so of
  an unfiltered and a filtered branch only the filtered one is listed
  (`Conjunctions`; `Regular` excludes the case from `AnswersFromOneMoment`).
  A user without groups gets a query without a WHERE for them.
* `api-authentication.go:27` says "Allow for a one-time password to be used up to 1
  time period after it was generated." The login compares with the code of the
  current period only (`CodeMatches`): a password mailed at the end of a period is
  refused moments later.
* `downballotwrapper/token.go:13` says "If the token has expired, then this fails with
  an error." A negative lifetime that ends before 1970 gives a negative
  `ExpiresAt`, which counts as no expiry (`Valid`).
* `durationparser.go:9` says "Parse parses the duration string and applies to the
  given date." `time.Duration` wraps around after some 292 years of hours, minutes or
  seconds (`Wrapped`).
* `api-organization.go:21` says "This lists the organizations." For the system the
  mask joins the members and restricts nothing: an organization is listed once per
  member, and never without one (`MaskedRows`).
* `filter/token.go:8` says "quotes the input if necessary". Empty strings, `and` and
  `or` as field names and texts with quotes in them are printed as they are, and
  inside of quotes an apostrophe becomes `\'`, which `Tokenize` does not understand.
  The bulk update builds its query with it (`person-update.go:44`), so persons whose voter ID
  has an apostrophe cannot be updated in bulk. Letters of several bytes come out
  garbled (`Bytes`). `PlainClause` excludes these from `CanonicalReadsBack`.
* A filter that ends in AND makes the parser index past its tokens
  (`filter/parse.go:97`, `Panicked`); the framework turns the panic into an error answer.
  A doubled or trailing OR is accepted, a quote right after a symbol
  (`a='x'`) is refused, symbols that touch become one (`=-`), and a bare `)` may stand for a
  field or a value, which is accepted alone but breaks the text it is joined into
  (`Paired` excludes it from `JoinedMeansAll`).
* `swagger-initializer.js:5`: when one of the two scripts before it did not load,
  `window.onload` stops at a missing global and the documentation never appears (`"broken"`). No property
  is about this.
* `api-organization-id-person-id.go:30` says of DELETE "This deletes the person with the given
  voter ID." The path goes into a filter unquoted (line 34): one that is read with more
  conditions deletes some person they select, whoever that is (`PathReads`, `Picks`). PATCH
  finds the person it changes in the same way.
* Of the listings only that of a group parses the query alone
  (`api-organization-id-group-id-person.go`). The list and the counts put
  it into the join as text, and no handler checks the filter of a group, so that a text
  that does not stand alone may select persons outside of the group's filter (`Stray`,
  excluded by `Regular`), which is not what filters above a group are for.
* A login with the system token (`downballotwrapper/user.go:159`) yields a token for
  `"@system"` with session identifier 0. It speaks for whoever registered under that name,
  or for nobody (`ServedAsMailed` and `TokensNeedMailedPassword` name the exception).
* `hasGroup` and `hasFilter` look in all organizations of the user, the permission is that of
  the organization in the path: who owns one and is a mere member of
  another can delete the other's groups and unenroll its users. `EnrolmentsEndByInsiders`
  says no more than the code keeps to.
* Deleting the root group, or unenrolling its last user, leaves an organization in which
  nobody sees a group and so nobody can enroll anybody; removing members never undoes an enrolment.
* The counts per group print the address of a parent ID into the name (`%d` of a
  pointer); the list is cut at its limit without an order; a condition on
  `voter_id` fails in an organization that has not defined a field of that name.

## 4. Bounds, and why they are enough

* **Requests** are two to four, each made once, of fixed kinds and arguments chosen
  from the named sets. Every property speaks of at most two requests that
  interfere, and a third one changes the tables both rely on. Repeating a request
  adds nothing: its locals are forgotten when it is answered.
* `PersonRecords`: four person IDs (two in the seed and two for what an import
  creates), two definitions (three where one is created), three voter IDs of which
  two are equal to the database, a path that is read as two conditions on different
  fields and one that is refused, two parties and the empty string, sheets of at
  most two rows in eight forms (create, update, both, repeat a voter, blank cell, no
  voter ID, other spelling), `MaxEdits = 2` edits of definitions. Two rows suffice
  for "fails after writing some" and for "repeats a voter".
* `GroupTree`: a chain of three groups and an ID for a fourth, two users, one at the
  root and one in both groups below, which a move may put side by side, and three requests of several kinds each.
* `Authentication`: two users of which one has two spellings, two secrets
  (symmetric: only compared), four requests, a period of two seconds and a clock
  from 7 to 10, so that the ends of two periods and of a token fall inside. The lifetimes are
  one second, one that may end before time 0, and one that wraps around:
  `MaxDuration = 8` stands for 2^63 nanoseconds, an "hour" is two seconds and a
  "year" three.
* `Accounts` and `Members`: four user IDs of which two are taken (the others are
  symmetric), four usernames of which two are equal to the database, two organizations
  of which one exists, four requests, two of them with the system token, and three
  visits. `Plans` says which of them come together: two users while an organization
  is founded, two registrations, requests with one visit of the kinds they can
  interfere with, and the three visits alone.
  Three filter IDs are one public, one private, and one for what is saved.
* `PersonScope`: one request, three groups in two branches below the root (or, after a
  move, in a chain), a user mapped to the root or to both branches, two persons, and `Plans`: a change of a group, or of the user's
  groups, or of a definition and a value. The
  filters between them use the operators of conditions, null tests, AND, OR, one without
  clauses, one that does not parse and a stray one, which is read as a comparison of
  coordinates or refused. `AnswersFromOneMoment` is claimed for at most one change of
  groups, maps or definitions while an answer is made (two moments), and for the whole
  list only when no group changes: beyond that torn reads are possible (section 3).
* `FilterLanguage`: texts of at most three pieces and one level of parentheses, from
  four conditions that have every form (comparison, list, null tests, quoted words and
  parentheses, no spaces) and nine letters out of place. Three pieces have an AND beside an
  OR in the scope of a parenthesis, which is where one pass with an open AND
  group can go wrong.
* `StaticSite`: minutes of four ticks, seconds of two, five ticks and one deployment:
  a minute ends, an age is rounded up or down by half a second, and a copy of the last
  minute meets a new version. The theorem has no such bounds.
* Histories such as `moments`, `been` and `accepted` are finite because edits and
  requests are.

## 5. Fairness

`EveryRequestEnds` of `PersonRecords` (in `records_import`, where requests wait for the
lock) and of `GroupTree` needs weak fairness of
`Step(r)` for each request. The Go scheduler runs every runnable
goroutine, and SQLite answers each statement: a writer that has to wait is served
when the open transaction ends or gets a busy error (`Busy`). Arrivals, edits
of definitions and restarts are not fair. `EveryRequestEnds` of `GroupTree` is
conditional on `[]~Cyclic`, because in a circle the walks do not end (finding above).

## 6. What is assumed

* SQLite runs transactions one after the other, rolls an open one back when the
  process stops, and enforces unique indexes and the foreign keys and cascades
  declared in gorm's tags. The repository sets no `foreign_keys` pragma explicitly:
  the models follow the schema's tags.
* `user` and `organization` rows are never deleted (no endpoint does) and
  `session_identifier` is always 0 (no code sets it).
* Different secrets or periods give different one-time passwords; signatures
  of tokens cannot be made without the key.
* The callers of `PersonRecords` see all persons: they are mapped to an unfiltered
  root group. What other users see is `PersonScope`.
* The named assumptions of the modules (`RecordsAssumption`, `SeedAssumption`,
  `GroupAssumption`, `TreeAssumption`, `AuthAssumption`, `AccountsAssumption`,
  `MembersAssumption`, `ScopeAssumption`, `LanguageAssumption`, `SiteAssumption`) say
  that constants have the right types and that the seed is a state the
  tables' constraints allow. Of the alphabet of filters, `LanguageAssumption` says that
  words, spaces and the three kinds of punctuation are different and of one byte, and that
  what operations are written with counts as symbols.
  `ConditionsAssumption` says of each condition that somebody may type that it is read as it is
  meant when it is read *alone*: conditions have no structure to argue about, and TLC
  evaluates this for one of every form. TLC evaluates them in every run. Of the groups they say that there
  are finitely many IDs, and for `PersonScope` that the seed's parents form a forest:
  circular ones, which a PATCH can make (`groups_circular`), never let a listing end.

## 7. What is proved

Every theorem holds for all values of the constants that satisfy the assumptions of
the module it is about, and assumes nothing else.

| Module | Theorems |
|---|---|
| `PersonRecords_proofs` | `TypeCorrect`, `NoOrphansEver`, `TrailTellsValueAlways`, `UniqueVoterIDsAlways`, from `Invariance`; `StoredValuesAcceptedAlways`, from `VInvariance`; `Refinement` (`Spec => ImplementsLedger`), `EveryChangeAuditedAlways`, `OnlyRequestedDeletesAlways`, `ImportAuditsChainAlways`, from `LedgerInvariance` and `ChainedAlways`; `FailedImportChangesNothingAlways`, from `OpenedInvariance`; `SuccessfulImportIsCompleteAlways`, from `CompleteInvariance` |
| `GroupWalks_proofs` | `CondenseKeepsHighest`, with the lemmas about ancestors, subtrees and paths |
| `GroupTree_proofs` | `TypeCorrect`, `NothingDanglesAlways`, `VisibleAreSubtreesAlways`, `ListUnfoldsAlways`, `PlacedWhereSeenAlways`, `OnlyEnrolmentMapsAlways` |
| `PersonScope_proofs` | `TypeCorrect`, `FailuresExplainedAlways`, `AnswersFromOneMomentAlways`, from `Invariance` |
| `FilterLanguage_proofs` | `JoinedMeansAllAlways`; `ReadsAsWrittenAlways`, from `WrittenInv`; `CanonicalReadsBackAlways` of `FilterPrinting` |
| `Authentication_proofs` | `TypeCorrect`, `MailedPasswordsMatchAlways`, `ServedAsMailedAlways`, `TokensNeedMailedPasswordAlways` |
| `Members_proofs` | of `Accounts`: `TypeCorrect`, `UsernamesDifferAlways`, `ChangedByOwnersAlways`, `RolesChangeAsAskedAlways`, `OwnerlessStaysSoAlways`; of `Members`: `ImplementsAccounts` (`MSpec => Spec`), `MembersTypeCorrect`, `EnrolledWereMembersAlways`, `EnrolmentsEndByInsidersAlways`, `FiltersStayTheirsAlways` |
| `StaticSite_proofs` | `PageOfOneMinuteAlways` |

### The person store

    IInv == TypeOK /\ Sound(person, used, field, trail) /\ SoundWork

`Sound` is a predicate of four tables: persons have IDs that were handed out,
pairs of a missing person have no value and no trail, a non-empty trail ends in the
stored value, and voter IDs differ to the database. The three safety invariants
are its conjuncts, but they are not inductive by themselves:

* `ImportCommit` replaces the tables by `work`, so what an open transaction has
  written must itself be sound (`SoundWork`);
* `ImportBegin` gives new persons IDs outside of `used`; that their pairs have no
  values or trails yet follows only because persons have used IDs and missing
  persons have nothing.

The argument goes action by action. `Appending` is the lemma about a set of
pairs on which values are stored and entries appended whose new values are those
values: it serves `CommitFields`, on the tables, and `ImportRow`, on the
work. `ArriveType`, `ReadType` and `QuietStep` deal with all steps that only read.

The refinement needs to know what a commit does *relative to the tables as they are
then*, which `IInv` does not say. `LInv` adds, for each request, that the persons it
found had IDs in use and that a DELETE found at most one, which meets what its path was
read as, if that is about the voter ID (`Sought`, in `ReqFacts`; persons come and go, but an ID is
never used for another and keeps its voter ID, `IDsStay`), and
for an open import that its work only revises persons there are and creates others
under new IDs, every changed trail continuing the committed one (`Pending`). With it
each writer is one `Write` or `Expunge` of the ledger and everything else a stutter.
`EveryChangeAudited` then follows from what the writers have in common (`WhoWrites`: only
`CommitFields` and `ImportCommit` add entries, their own), and `OnlyRequestedDeletes` from `Sought`. `ImportAuditsChain` needs one more invariant, that the entries an
open import has added so far follow one another (`Chained`).

`VInv`, for the stored values, says that the definitions a request has read
are of the past, that what it has validated fits them, and that what an open import
has written is acceptable; names of definitions are unique, so the definition
looked up by name at the commit is the one the value was validated for (`DefOfName`).

`FailedImportChangesNothing` compares the tables at the end of a transaction that does not
commit with `opened`. `OpenedOn` says that the committed tables are
`opened` for as long as an import holds the lock: nobody else writes then, and the import
itself only writes `work`, which a rollback or a restart throws away.

`SuccessfulImportIsComplete` needs the rows done so far, in order. `CInv` (`Written`)
says of an open import that each new row has its person in `work` with all its cells
(`Enrolled`), and each other row before the next one has the person that was found for
it, with each cell that no later row *done so far* overrides (`Updated`). Three facts carry
it through a row. New persons have IDs that no row found (`IDsStay`), so that updates leave them
alone. Two rows that write the same pair found the same person under its exact voter
ID, so that the earlier one is overridden in the sense of the property. And the voter ID is
itself a cell of the row: when a concurrent DELETE has taken the person
and its fields, there is something to write for a person that is missing, and the whole import fails.

### Groups

`Above` and `Below` are least closed sets, so the duality `x \in Above(up, g) <=> g \in
Below(up, x)` (`AboveBelow`) is proved without induction: the complement of a set closed
upwards is closed downwards. From it `VisibleSubtrees`, the correctness of the walk
of `getGroupsForUser`, follows even for circular parents, for as much as a walk that ends would find. `IInv` adds to `TypeOK` and `NothingDangles` what a request names and has read at each
statement (`Progress`): a request that is about to place a group saw the
parent in *its* reading, which is all that `PlacedWhereSeen` says.

`PathTo`, the path to a group, is a recursive function over lengths, so what it
computes is proved by induction. The induction rules of the library take an operator
and cannot be used, but the least element of a set can: `Climbing` has from
`NatLessThanWellFounded` that a set of naturals with 0 and all successors is `Nat`,
and each induction names its set. `PathTablesExist` shows in this way that
the table of paths which `PathTo` chooses from exists (`PathToTable`), `TableAbove` that a path only
has ancestors, and `TableComplete` that in a finite forest without cycles
(`Acyclic`: every set of groups has one whose parent is not in the set) it has all of them, because
what is above a parent is one less (`AboveShrinks`). `CondenseKeepsHighest`
follows: of the hierarchies of visible groups, those no other one is a prefix of are the
ones of the groups whose parent is not visible. `ListUnfoldsAlways` is this
for `GroupTree`, with `~Cyclic` as hypothesis, as in the run.

### Listings

`moments[r]` is the history of what the tables have been since `r` arrived. `SInv`
says of every request in flight that if there have been at most two moments, `{o, Now}`,
then `Now` came from `o` by one edit (`By`), and what the request has read is
what `o` or `Now` says, in this order (`ReadsInOrder`): groups of `a`, maps of `b`,
groups again of `c`, definitions of `d`, where none is of `o` after one was of `Now`
(`InOrder`; the definitions come last and may be of either). With it go that groups
form a forest at every moment, that values belong to definitions, and that an
internal error has its cause (`Explained`): what was not found to be seen was not seen at one
of the two moments (`SeenBetween`), every path found has the filters that its group had at one
of them (`PathWanted`), and a group on the list is one that was seen (`SeenWhole`).

* An edit keeps the forest: a move that is not below the group itself makes no
  cycle (`PatchedStaysAcyclic`), what a deletion leaves is closed (`DeleteGroupStep`).
* An edit leads to a moment that was not there before, or `moments` would say two
  although there had been three: no kind of edit undoes another (`NoReturn`), and there
  is one of each.
* `TornIsWhole` is the heart: when ancestors are read at `a` and the group itself at
  `c`, the filters found are those of `a` or those of `c`, whatever the edit in between did. A
  group that is moved has its new parent in `c`, and the path down to that parent
  is the same in `a`; a group whose filter is changed has it changed together with its parent; what is
  deleted has no path in `c`.
* So every path asks for the filters of one moment (`StringsTorn`), and the query of one
  path finds the `Members` of its group then (`OnePath`). The condensed paths of the whole
  list, when no group changes, are those of the highest visible groups
  (`CondenseKeepsHighest`), whose members include those of all groups below (`AllPaths`).

What a clause says of a person (`Holds`, `Fails`) is not looked into: the
theorems are about which clauses are asked for, and hold for clauses of any depth. Stray
texts are a premise of the one (`Regular`) and a cause in the other (`Unreadable`).
The edits are those of the model, one of each kind (`Plans` may be any set of plans).

### The filter language

Texts become tokens letter by letter, and tokens clauses turn by turn. Both are
recursive functions over lengths, and the argument follows each of them by induction over a
set of naturals that is named (`Climbing`).

* *Tokens.* `Says(txt, ts)`: the text is read without an error as these tokens and leaves
  none open. Texts that say something say one after the other, when they are set apart by a
  space (`SaysSpaced`) or by parentheses (`SaysWrap`), so that what is typed and what
  is joined can be told in tokens.
* *The parser is what it claims.* Tokens between parentheses are fewer, so `ParseTokens`
  satisfies the recursion of the code (`ParseTokensIs`), and its loop ends within the turns that
  `Looped` gives it (`LoopedInside`). The parenthesis that ends a balanced group is the
  one behind it, whatever follows (`ClosesEnclosed`).
* *Reading in context.* `Item(v, c)` says that `v` is one operand that is read as `c`
  wherever it stands. Conditions are (`ConditionItem`), and so is a balanced text in parentheses with
  the clause it has alone (`EncloseItem`). `Runs(v, ors, ands)` says that the loop takes `v` as a
  beginning, whatever comes after, and has these finished AND groups and this open one
  then: an operand begins, AND and OR with an operand go on (`RunsItem`, `RunsAnd`, `RunsOr`),
  and the end of the tokens gives the clause (`RunsEnd`).
* *`JoinedMeansAll`* follows for two filters in parentheses each. What a filter needs is
  that its parentheses are paired (`AcceptedBalanced`), which is why `SelfContained` asks
  for it: acceptance alone is not enough (`a = )` is accepted), as section 3 says, and nothing is
claimed of texts that do not stand alone.
* *`ReadsAsWritten`* is not inductive: it says nothing about an open parenthesis or a text that
  ends in AND. `WrittenInv` says that the tokens typed inside of each open
  parenthesis run to the AND groups of its level in `stack`; outside of the innermost they end where an
  operand is due (`Pending`), and inside of it when one is (`Pending`) or when a
  group is `Complete`. Each key keeps this (`WrittenCondition`, `WrittenAnd`, `WrittenOr`,
  `WrittenOpen`, `WrittenClose`); to close a parenthesis is to make one operand of what is in
  it. There is no bound on pieces or depth in it.
* *`CanonicalReadsBack`* needs to know that clauses have forms at all: what is read from `n` tokens has
  at most `2n + 2` levels of groups (`ParsedClauses`), and a form does not depend on how many
  levels there may be (`FormsAgree`). A plain string, quoted if necessary, is one token with that
  value (`SaysPlain`), so that a printed condition is read as that condition, alone or in a longer
  text (`SimpleItem`). `Printed` is the induction over levels: of each readable form some
  clause is read that has the same form. It is not the same clause: an OR comes back as
  an OR of ANDs of one (`Regrouped`), and the whole as an AND of one (`PrintsParse`),
  which is why the property compares `normal` and a clause may gain two levels for each
  one it had.

### Authentication

`IInv` adds to the two invariants what requests know at each statement
(`Progress`), that secrets of different users differ and that one not yet stored
is known to one request only (`SecretsDiffer`), and that clients send what they
were given (`ClientsHonest`). A mailed password keeps matching because a second
insertion is refused; a password that is accepted was mailed to *this* user
because no two users share a secret (`Accepted`). Tokens that endpoints may accept speak
for such a user or carry the system's name: a login by token writes the user's ID where the
session identifier is looked for, which only for the system user, with ID 0, is one that is accepted.

### Accounts and Members

`IInv` of `Accounts` says which arguments a request has at each statement (`Arguments`),
that permissions of an owner are held only by present and former owners
and that whoever is past the check was entitled (`RightsWereGiven`), and that
members belong to organizations that exist (`MembersOfOrganizations`). `RoleWriters`
says what the four transactions that write a role have in common; the action
properties follow from it. `OwnerlessStaysSo` also needs `Permits`: whoever is about to
change a member still holds the permission in its copy.

A step of `Members` is a step of `Accounts` or leaves its variables alone, which gives
`ImplementsAccounts`, and with it all that is proved of `Accounts`. `MInv` then needs
only what visits know: an enrolment that is past its check is of someone who was a member
(`joined` never shrinks), a visit that is about to end enrolments had an owner's right in the
organization of its path and was a member of that of the group (`Ends`, from `Rightful` and
`MaskedRowsOfMembers`), and a filter about to be changed has an ID that was handed
out, so that it is gone or is still the one that was looked up.

### Static files

`IInv` says of each copy that it was asked for in this minute, the one before, or
earlier, that it expires at most half a second after its minute, and that its version
was there in that minute; and of a page that is loading that its `since` allows for
copies of the last minute as long as those can be fresh (`SinceOK`).

### Only model-checked

* Liveness (`EveryRequestEnds`), which needs fairness and ENABLED.
* `UpdatesThoseNamed`: that a bulk update changes the persons it was given, and all of them.
* The statements that the code contradicts (section 3): they are violated.

## 8. What is not modelled

Nothing that is left holds state in which two requests meet:

* Column types and encryption (`schema/sqltype`), opening and migrating the database,
  logging, CSV output, parsing of query parameters, generated registration code,
  message types, and a client that sends one request at a time: conversions of one
  value, or wrappers.
* Matching of permission names with wildcards (`permissionset/`): a pure comparison
  of strings; the names that the server itself checks have no wildcard, and what
  a role permits is a table (`Permitted`).
* Validation of the seven field types (`schema/person-field.go`): which texts a type
  accepts is a constant set in `PersonRecords`, which is all that its properties
  depend on; `PersonScope` keeps the two ways in which types compare.
* Start-up, routing and the conversion of errors and panics to answers: taken as
  "every request runs in a goroutine of its own and gets an answer".
* In `PersonScope` the choice of returned fields and the limit of the list, which
  select from an answer that is otherwise right, and the arithmetic by which
  coordinates are near, which is the relation `Near`. Of the texts that do not stand alone it says
  only that anything may become of them.
* In `PersonRecords` the paths that are read with other comparisons than `=` and `!=`, with null
  tests or nested groups: `OnlyRequestedDeletes` depends on no more than that a path may be
  read as something else than a voter ID.
* Styles and icons of the documentation page are loaded as its scripts are; the
  bundles themselves are vendored and minified.

What could be added: what more than one edit may do to a listing, and the matching of
permission names once the server checks one with a wildcard.
