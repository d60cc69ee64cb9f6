-------------------------------- MODULE Locale --------------------------------
(***************************************************************************)
(* The language of the interface, in the build without gettext: a number   *)
(* kept in the file LANG, or derived from the system's first language, and *)
(* cached in one variable that every thread reads and the settings screen  *)
(* clears.  preferred_language converts the system's name in a buffer that *)
(* all callers share.                                                      *)
(*                                                                         *)
(* A name is its subtags and what stands between them.                     *)
(***************************************************************************)
EXTENDS Integers, Sequences, SequencesExt

CONSTANTS
  Readers,      \* the threads that ask for the language
  Selector,     \* the reader that also runs the settings screen
  Systems,      \* the languages, as subtags, the system may prefer
  Languages,    \* how many languages there are to choose from
  MaxChoices    \* bound on what the user does in the settings

ASSUME LocaleAssumption == Selector \in Readers /\ Languages \in Nat /\ MaxChoices \in Nat

VARIABLES
  config,       \* the name another build left in the preferences, as its first letters, or ""
  system,       \* the system's first language
  langFile,     \* the number in LANG, Empty, or Absent
  code,         \* _preferred_language_code; -1 is "not looked up"
  name,         \* the static buffer of preferred_language
  lookup,       \* where each reader is
  selecting,    \* what the settings screen is doing
  choices,      \* how much of it the user has done
  overtaken     \* whether code was stored by a lookup older than the last clear

localeVars == <<config, system, langFile, code, name, lookup, selecting, choices, overtaken>>

Absent == -2
Empty == -3
Unset == -1

-----------------------------------------------------------------------------
(* preferred_language.                                                     *)

Entry(tag, unix) == [tag |-> tag, unix |-> unix]

langtag_table == <<
  Entry(<<"az", "Latn">>, <<"az">>),        Entry(<<"bs", "Latn">>, <<"bs">>),
  Entry(<<"ga", "dots">>, <<"ga">>),        Entry(<<"kk", "Cyrl">>, <<"kk">>),
  Entry(<<"mn", "Cyrl">>, <<"mn">>),        Entry(<<"ms", "Latn">>, <<"ms">>),
  Entry(<<"pa", "Arab">>, <<"pa", "PK">>),  Entry(<<"pa", "Guru">>, <<"pa", "IN">>),
  Entry(<<"sr", "Cyrl">>, <<"sr">>),        Entry(<<"tg", "Cyrl">>, <<"tg">>),
  Entry(<<"tk", "Cyrl">>, <<"tk">>),        Entry(<<"tt", "Cyrl">>, <<"tt">>),
  Entry(<<"uz", "Latn">>, <<"uz">>),        Entry(<<"yue", "Hans">>, <<"yue">>),
  Entry(<<"zh", "Hans">>, <<"zh", "CN">>),  Entry(<<"zh", "Hant">>, <<"zh", "TW">>),
  Entry(<<"zh", "Hant", "HK">>, <<"zh", "HK">>), Entry(<<"zh", "Hant", "TW">>, <<"zh", "TW">>) >>

script_table == <<
  Entry(<<"Arab">>, "arabic"), Entry(<<"Cyrl">>, "cyrillic"),
  Entry(<<"Latn">>, "latin"),  Entry(<<"Mong">>, "mongolian") >>

\* The subtags in the order of strcmp.
Collation == <<"Arab", "CN", "Cyrl", "Guru", "HK", "Hans", "Hant", "Latn", "MO", "Mong", "TW", "UZ",
               "az", "bs", "de", "dots", "en", "fr", "ga", "kk", "mn", "ms", "pa", "sr", "tg",
               "tk", "tt", "uz", "yue", "zh">>
Rank(s) == CHOOSE i \in DOMAIN Collation : Collation[i] = s

\* strcmp(a, b) < 0.
Before(a, b) ==
  \/ IsStrictPrefix(a, b)
  \/ \E i \in DOMAIN a \cap DOMAIN b :
       Rank(a[i]) < Rank(b[i]) /\ \A j \in 1..(i - 1) : a[j] = b[j]

\* A mutant: the bisection stops one step early.
FloorEarly(table, tag) ==
  LET bisect[range \in (1..Len(table)) \X (2..(Len(table) + 1))] ==
        LET low == range[1]
            high == range[2]
            middle == (low + high) \div 2
        IN  IF high - low <= 2 THEN low
            ELSE bisect[IF Before(tag, table[middle].tag) THEN <<low, middle>> ELSE <<middle, high>>]
  IN  bisect[<<1, Len(table) + 1>>]

\* The bisection of both tables: the last entry that is not after tag, or the first one.
Floor(table, tag) ==
  LET bisect[range \in (1..Len(table)) \X (2..(Len(table) + 1))] ==
        LET low == range[1]
            high == range[2]
            middle == (low + high) \div 2
        IN  IF high - low <= 1 THEN low
            ELSE bisect[IF Before(tag, table[middle].tag) THEN <<low, middle>> ELSE <<middle, high>>]
  IN  bisect[<<1, Len(table) + 1>>]

Name(subtags, between) == [subtags |-> subtags, between |-> between]

\* Seven or ten characters, the third of them a dash: a language of two letters and a script,
\* and perhaps a region of two.
Scripted(n) ==
  /\ n.between = "-" /\ n.subtags[1] # "yue"
  /\ Len(n.subtags) \in {2, 3} /\ n.subtags[2] \in {"Arab", "Cyrl", "Guru", "Hans", "Hant", "Latn",
                                                    "Mong", "dots"}

\* What preferred_language makes of the buffer.
Converted(n) ==
  LET row == langtag_table[Floor(langtag_table, n.subtags)]
      script == script_table[Floor(script_table, Tail(n.subtags))]
  IN  IF Scripted(n) /\ IsPrefix(row.tag, n.subtags) THEN Name(row.unix, "_")
      ELSE IF Scripted(n) /\ script.tag = Tail(n.subtags)
           THEN Name(<<n.subtags[1], script.unix>>, "@")
      ELSE Name(n.subtags, IF n.between = "-" THEN "_" ELSE n.between)

\* The English and German variants are answered without the buffer.
Unified == {"en", "de"}

-----------------------------------------------------------------------------
(* preferred_language_code.                                                *)

Idle == [at |-> "idle"]

LocaleInit ==
  /\ config \in {"", "zh"}
  /\ system \in Systems
  /\ langFile \in {Absent} \cup 0..(Languages - 1)
  /\ code = Unset
  /\ name = Name(<<>>, "")
  /\ lookup = [r \in Readers |-> Idle]
  /\ selecting = Idle
  /\ choices = 0
  /\ overtaken = FALSE

\* The reader is elsewhere: the settings screen and its own lookups run on one thread.
May(r) == r = Selector => selecting = Idle

\* The cache is empty: open_lang_override.  A reader of the file holds it even once removed.
OpenLang(r) ==
  /\ May(r) /\ lookup[r] = Idle /\ code = Unset
  /\ lookup' = [lookup EXCEPT ![r] =
       [at |-> IF langFile = Absent THEN "find" ELSE "read", asks |-> "code", fresh |-> TRUE,
        gone |-> Absent]]
  /\ UNCHANGED <<config, system, langFile, code, name, selecting, choices, overtaken>>

Store(r, value) ==
  /\ code' = value
  /\ overtaken' = ~lookup[r].fresh
  /\ lookup' = [lookup EXCEPT ![r] = Idle]

\* Fewer than four bytes make the first language.
ReadLang(r) ==
  /\ lookup[r].at = "read"
  /\ LET found == IF lookup[r].gone # Absent THEN lookup[r].gone ELSE langFile
     IN  Store(r, IF found = Empty THEN 0 ELSE found)
  /\ UNCHANGED <<config, system, langFile, name, selecting, choices>>

\* The date fields of the charging screen ask for the name only.
FormatDates(r) ==
  /\ r = Selector /\ May(r) /\ lookup[r] = Idle
  /\ lookup' = [lookup EXCEPT ![r] = [at |-> "find", asks |-> "dates", fresh |-> TRUE, gone |-> Absent]]
  /\ UNCHANGED <<config, system, langFile, code, name, selecting, choices, overtaken>>

\* preferred_language answers the preference, if there is one.
FindName(r) ==
  /\ lookup[r].at = "find"
  /\ lookup' = [lookup EXCEPT ![r].at = IF config # "" THEN "store" ELSE "copy"]
  /\ UNCHANGED <<config, system, langFile, code, name, selecting, choices, overtaken>>

\* The name of the system's language is copied into the buffer ...
CopyName(r) ==
  /\ lookup[r].at = "copy"
  /\ name' = Name(system, "-")
  /\ lookup' = [lookup EXCEPT ![r].at = IF system[1] \in Unified /\ Len(system) > 1
                                        THEN "store" ELSE "convert"]
  /\ UNCHANGED <<config, system, langFile, code, selecting, choices, overtaken>>

\* ... and converted there.
ConvertName(r) ==
  /\ lookup[r].at = "convert"
  /\ name' = Converted(name)
  /\ lookup' = [lookup EXCEPT ![r].at = "store"]
  /\ UNCHANGED <<config, system, langFile, code, selecting, choices, overtaken>>

\* The number that the first two letters of the name select.
SystemCode == IF (IF config # "" THEN config ELSE system[1]) = "zn" THEN 1 ELSE 0

StoreSystem(r) ==
  /\ lookup[r].at = "store"
  /\ IF lookup[r].asks = "code" THEN Store(r, SystemCode)
     ELSE lookup' = [lookup EXCEPT ![r] = Idle] /\ UNCHANGED <<code, overtaken>>
  /\ UNCHANGED <<config, system, langFile, name, selecting, choices>>

-----------------------------------------------------------------------------
(* The settings screen.                                                    *)

\* A language is chosen: the file is opened, or created, and not truncated.  Opening fails
\* when the directory cannot be written; the rest goes on.
Choose(n) ==
  /\ lookup[Selector] = Idle /\ selecting = Idle /\ choices < MaxChoices
  /\ choices' = choices + 1
  /\ \/ /\ langFile' = IF langFile = Absent THEN Empty ELSE langFile
        /\ selecting' = [at |-> "write", value |-> n]
     \/ /\ langFile' = langFile
        /\ selecting' = [at |-> "clear"]
  /\ UNCHANGED <<config, system, code, name, lookup, overtaken>>

\* A mutant: the number is left in the cache.
WriteChoiceKept ==
  /\ selecting.at = "write"
  /\ langFile' \in {langFile, selecting.value}
  /\ selecting' = Idle
  /\ UNCHANGED <<config, system, code, name, lookup, choices, overtaken>>

WriteChoice ==
  /\ selecting.at = "write"
  /\ langFile' \in {langFile, selecting.value}
  /\ selecting' = [at |-> "clear"]
  /\ UNCHANGED <<config, system, code, name, lookup, choices, overtaken>>

\* "Clear": the file is removed; who has it open reads on in what it was.
RemoveChoice ==
  /\ lookup[Selector] = Idle /\ selecting = Idle /\ choices < MaxChoices
  /\ choices' = choices + 1
  /\ langFile' = Absent
  /\ selecting' = [at |-> "clear"]
  /\ lookup' = [r \in Readers |-> IF lookup[r].at = "read" /\ lookup[r].gone = Absent
                                  THEN [lookup[r] EXCEPT !.gone = langFile] ELSE lookup[r]]
  /\ UNCHANGED <<config, system, code, name, overtaken>>

preferred_language_code_clear ==
  /\ selecting.at = "clear"
  /\ code' = Unset
  /\ selecting' = Idle
  /\ lookup' = [r \in Readers |-> IF lookup[r] = Idle THEN Idle
                                  ELSE [lookup[r] EXCEPT !.fresh = FALSE]]
  /\ overtaken' = FALSE
  /\ UNCHANGED <<config, system, langFile, name, choices>>

LocaleNext ==
  \/ \E r \in Readers : \/ OpenLang(r) \/ ReadLang(r) \/ FormatDates(r) \/ FindName(r)
                         \/ CopyName(r) \/ ConvertName(r) \/ StoreSystem(r)
  \/ \E n \in 0..(Languages - 1) : Choose(n)
  \/ WriteChoice \/ RemoveChoice \/ preferred_language_code_clear

LocaleSpec == LocaleInit /\ [][LocaleNext]_localeVars

-----------------------------------------------------------------------------

\* Once a choice has been made, the number that every caller is given is that of the file, or
\* of the system's language: what was cached before is never used again, unless a lookup that
\* was already under way stores it anew.
CodeFresh ==
  selecting = Idle /\ ~overtaken =>
    code \in {Unset, CASE langFile = Absent -> SystemCode
                       [] langFile = Empty -> 0
                       [] OTHER -> langFile}

\* Threads that convert in the shared buffer at the same time leave what one of them alone
\* would: every language that the table lists, by its name on Unix.
NameSettles ==
  (\A r \in Readers : lookup[r].at # "convert") =>
    \A i \in DOMAIN langtag_table :
      system = langtag_table[i].tag /\ name.subtags # <<>> /\ system[1] # "yue"
        => name = Name(langtag_table[i].unix, "_")
=============================================================================
