-------------------------- MODULE MCGenerateAssoc --------------------------
(* A vocabulary for GenerateAssoc: three OS identifiers and the tokens that *)
(* exercise each branch of the scorer: the empty token of a double space,   *)
(* a one-letter word, a one-digit word, a stop word, short and long words.  *)
EXTENDS GenerateAssoc

MCNames == {"Linux 2.4", "Linux 2.6", "FreeBSD 5.0"}
MCWords == {"", "x", "2", "Kernel", "2.4", "Linux"}
MCWordLen == [t \in MCWords |->
               CASE t = "" -> 0 [] t = "x" -> 1 [] t = "2" -> 1
                 [] t = "Kernel" -> 6 [] t = "2.4" -> 3 [] t = "Linux" -> 5]
MCDigitWords == {"2", "2.4"}
MCStopWords == {"Kernel"}
\* Which token is a substring of which identifier.
MCOccurs == [n \in MCNames |->
               CASE n = "Linux 2.4" -> {"", "x", "2", "2.4", "Linux"}
                 [] n = "Linux 2.6" -> {"", "x", "2", "Linux"}
                 [] n = "FreeBSD 5.0" -> {""}]
=============================================================================
