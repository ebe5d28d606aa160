---------------------------- MODULE Localization ----------------------------
(***************************************************************************)
(* The locale that answers a request, chosen from its Accept-Language      *)
(* header, and months as the pages of a locale write them.  A tag is the   *)
(* sequence of its subtags in lower case, a quality counts thousandths.    *)
(***************************************************************************)
EXTENDS Integers, Sequences

CONSTANT
  Headers   \* Accept-Language headers

German == <<"de", "de">>
English == <<"en">>
Supported == <<German, English>>
Locales == {German, English}

AnyRange == <<"*">>
NotQuality == -1   \* a parameter that is not a quality

\* A part of a header between commas: a range, empty when the text is none, and
\* the parameters after its semicolons.
Part == [range : Seq(STRING), parameters : Seq({NotQuality} \cup 0..1000)]

ASSUME HeadersAssumption == Headers \subseteq Seq(Part)

\* Parts with more than one parameter, or another one than a quality, are left out.
Ranges(header) ==
  {i \in DOMAIN header :
     /\ header[i].range # <<>>
     /\ Len(header[i].parameters) < 2
     /\ \A k \in DOMAIN header[i].parameters : header[i].parameters[k] # NotQuality}

Quality(part) == IF part.parameters = <<>> THEN 1000 ELSE part.parameters[1]

Matching(header, locale) ==
  {i \in Ranges(header) : \/ header[i].range = AnyRange
                              \/ header[i].range[1] = locale[1]}

\* Any other region of the language counts as the language.
Specificity(range, locale) ==
  IF range = AnyRange THEN 0 ELSE IF range = locale THEN Len(range) ELSE 1

\* Fault: the first range that matches counts, however specific others are.
Preference_First(header, locale) ==
  CHOOSE i \in Matching(header, locale) : \A j \in Matching(header, locale) : i <= j

\* The most specific range that matches, of several the first.
Preference(header, locale) ==
  CHOOSE i \in Matching(header, locale) : \A j \in Matching(header, locale) :
    LET mine == Specificity(header[i].range, locale)
        other == Specificity(header[j].range, locale) IN
    mine > other \/ (mine = other /\ i <= j)

QualityFor(header, locale) == Quality(header[Preference(header, locale)])

Acceptable(header) ==
  {l \in Locales : Matching(header, l) # {} /\ QualityFor(header, l) > 0}
Excluded(header) ==
  {l \in Locales : Matching(header, l) # {} /\ QualityFor(header, l) = 0}

\* By quality, then by place in the header; the fallback decides what is left.
Ranks(header, default, l, k) ==
  \/ QualityFor(header, l) > QualityFor(header, k)
  \/ /\ QualityFor(header, l) = QualityFor(header, k)
     /\ \/ Preference(header, l) < Preference(header, k)
        \/ Preference(header, l) = Preference(header, k) /\ l = default

\* resolveRequestLocale; a request without the header has the empty one.
Negotiate(header, default) ==
  IF Acceptable(header) # {}
  THEN CHOOSE l \in Acceptable(header) :
         \A k \in Acceptable(header) \ {l} : Ranks(header, default, l, k)
  ELSE IF default \notin Excluded(header) THEN default
  ELSE IF Locales \ Excluded(header) # {} THEN CHOOSE l \in Locales \ Excluded(header) : TRUE
  ELSE default

\* The locales that requests are answered in, for each configured fallback.
Negotiated == [default \in Locales |-> {Negotiate(header, default) : header \in Headers}]

-----------------------------------------------------------------------------
(* Months in queries.                                                      *)

\* How a month is written: as in the tables, in no locale, or as on the pages of a locale.
Canonical == <<>>
Styles == Locales \cup {Canonical}

\* parseMonth of a locale.
Parses(style, locale) == style = locale
=============================================================================
