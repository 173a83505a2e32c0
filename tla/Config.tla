-------------------------------- MODULE Config --------------------------------
(***************************************************************************)
(* File configuration (src/config): config.Init loads an .xml file once,   *)
(* config.Get(args...) walks the document from its <gffg> root with        *)
(* aXml.Get, and the aReader it returns converts the element's text with   *)
(* String(def), Int(def) or Bool().                                        *)
(*                                                                         *)
(* A document is a function from element paths (sequences of names, the   *)
(* root first) to the element's text, its domain closed under prefixes.   *)
(* One element per name and level: tinydom's FirstChildElement picks the   *)
(* first of several with one name, and only that one is kept.  A text is  *)
(* a string; the numerals in play and their values are listed.            *)
(***************************************************************************)
EXTENDS Integers, Sequences, TLC

Nil == "nil"            \* a nil tinydom.XMLElement, or aReader{} with conf nil
NoConf == <<>>          \* iconf nil, or an aXml whose xmldoc is nil
Root == "gffg"          \* the name config.Get puts before every path

\* strconv.ParseInt(text, 10, 64) on the texts in play that it accepts;
\* any other text ("", "true", a word, a numeral past int64) is an error.
Numerals == ("0" :> 0) @@ ("5" :> 5) @@ ("10" :> 10) @@ ("11" :> 11)
            @@ ("2" :> 2) @@ ("-1" :> -1)

-----------------------------------------------------------------------------
(* aXml.Get *)

\* FirstChildElement(a) of the element at `at` (of the document for <<>>).
Child(doc, at, a) ==
    IF Append(at, a) \in DOMAIN doc THEN Append(at, a) ELSE Nil

\* The loop of aXml.Get: while xml is nil the next name is looked up from
\* the document again, otherwise below xml.
RECURSIVE Walk(_, _, _)
Walk(doc, xml, args) ==
    IF args = <<>> THEN xml
    ELSE Walk(doc,
              Child(doc, IF xml = Nil THEN <<>> ELSE xml, Head(args)),
              Tail(args))

\* aXml.Get: no names or no document is aReader{}; so is a missing element.
XmlGet(doc, args) ==
    IF args = <<>> \/ doc = NoConf THEN Nil
    ELSE LET x == Walk(doc, Nil, args)
         IN  IF x = Nil THEN Nil ELSE doc[x]

-----------------------------------------------------------------------------
(* config.Init / config.Get *)

\* config.Init(f): iconf is set only for a name ending in .xml; GetXml
\* leaves xmldoc nil when the file cannot be opened or read.
Load(isXml, doc) == IF isXml THEN doc ELSE NoConf

\* config.Get: aReader{} before Init, else the walk from <gffg>.
Get(iconf, args) ==
    IF iconf = NoConf THEN Nil ELSE XmlGet(iconf, <<Root>> \o args)

-----------------------------------------------------------------------------
(* aReader: what the XML backend hands it is nil or the element's text *)

\* String(def): def only when conf is nil; any text, the empty one
\* included, is returned as it is.
ReadString(conf, def) == IF conf = Nil THEN def ELSE conf

\* Int(def) and Int64(def): ParseInt(text, 10, 64), def on nil or on a
\* parse error.
ReadInt(conf, def) == IF conf \in DOMAIN Numerals THEN Numerals[conf] ELSE def

\* Bool(): true exactly for the text "true".
ReadBool(conf) == conf = "true"

-----------------------------------------------------------------------------
(* Documents and the settings the code reads *)

\* The paths the code reads (server.go, registry.go), after <gffg>.
CodePaths ==
    {<<"server", "channels">>, <<"server", "coroutines">>,
     <<"server", "location", "region">>, <<"polaris", "addrs">>,
     <<"polaris", "reporter", "enable">>}

\* Candidate elements: every prefix of a code path below <gffg>, and
\* settings put one level too high.
Elements ==
    UNION {{<<Root>> \o SubSeq(p, 1, n) : n \in 1..Len(p)} : p \in CodePaths}
    \cup {<<Root>>, <<Root, "channels">>, <<Root, "region">>}

IsLeaf(e, S) == ~\E f \in S : Len(f) > Len(e) /\ SubSeq(f, 1, Len(e)) = e

\* The documents whose root is <gffg>: a prefix-closed set of elements,
\* a text from Texts on each leaf and the empty text on the others.
Docs(Texts) ==
    UNION {{[e \in S |-> IF IsLeaf(e, S) THEN t[e] ELSE ""] :
             t \in [{e \in S : IsLeaf(e, S)} -> Texts]} :
           S \in {S \in SUBSET Elements :
                    <<Root>> \in S
                    /\ \A e \in S : Len(e) = 1 \/ SubSeq(e, 1, Len(e) - 1) \in S}}

\* What a setting is by its path: the text of the element at exactly
\* <gffg>/path, or nothing.
Setting(doc, path) ==
    LET e == <<Root>> \o path IN IF e \in DOMAIN doc THEN doc[e] ELSE Nil
\* config.Get finds each setting the code reads at exactly its path below
\* <gffg>: the walk of aXml.Get, which starts over from the document after
\* a missing element, never lands on another element, in any document of
\* the settings with an empty or a numeral text.
ConfigLookup ==
    \A d \in Docs({"", "5"}), p \in CodePaths : Get(d, p) = Setting(d, p)

\* Checked by TLC when it loads any model that uses the configuration.
ASSUME ConfigLookup

=============================================================================
