------------------------------- MODULE MCStartup -------------------------------
(* Small instances of Startup for TLC. *)
EXTENDS Startup

MCDirectory == {"relative", "base", "cwd", "/run", "/etc", "keys.d"}
MCFilename == {"(empty)", "password", "token", "roots", "keys", "keys.d", "nowhere", "a", "b"}

Regular(bytes) == [kind |-> "regular", bytes |-> bytes]
Special(kind) == [kind |-> kind, bytes |-> <<>>]

SecretFiles ==
  {Special(kind) : kind \in {"missing", "directory", "fifo"}}
    \cup {Regular(bytes) : bytes \in BoundedSeq(Bytes, MaxSecretBytes + 1)}

MCReplacements == {Special("fifo"), Regular(<<"LF", "LF">>), Regular(<<"x", "CR", "LF">>)}

Inline(bytes) == [value |-> {bytes}, file |-> {}]
InFile(path) == [value |-> {}, file |-> {path}]
Entry(address, allowed) == [address |-> address, allow_split_delivery |-> allowed]

(* One start that succeeds, with a file of every sort. *)
Sound ==
  [config |->
    [parses |-> TRUE,
     number |-> [n \in Numbers |-> 1],
     text |-> [t \in Texts |-> "text"],
     secret |-> [listen |-> InFile(<<"relative", "password">>), remote |-> Inline(<<"x">>)],
     exceptions |-> <<Entry(<<"a", "@", "b">>, TRUE)>>,
     roots |-> <<<<"relative", "roots">>>>,
     key_files |-> <<<<"/etc", "keys">>>>,
     key_directories |-> <<<<"relative", "keys.d">>>>,
     key_services |-> FALSE],
   fs |->
     <<"base", "password">> :> Regular(<<"x", "LF">>) @@ <<"cwd", "password">> :> Regular(<<"LF">>)
       @@ <<"/run", "token">> :> Regular(<<"x">>)
       @@ <<"base", "roots">> :> Regular(<<"x">>) @@ <<"/etc", "keys">> :> Regular(<<"x">>)
       @@ <<"base", "keys.d">> :> Special("directory")
       @@ <<"keys.d", "a">> :> Regular(<<"x">>) @@ <<"keys.d", "b">> :> Special("fifo")]

Addressed ==
  LET written == {<<>>, <<"a">>, <<"a", "@">>, <<"@", "a">>, <<"a", "@", "b">>, <<"A", "@", "b">>,
                  <<"A", "@", "A">>, <<"a", "@", "b", "@", "a">>, <<"<", "a", "@", "b", ">">>,
                  <<"space", "a", "@", "b">>, <<"u", "@", "b">>, <<"a", "comma", "@", "b">>}
  IN  {<<Entry(one, FALSE)>> : one \in written}
        \cup {<<Entry(one, TRUE), Entry(two, FALSE)>> : one \in written, two \in written}

Sources ==
  {[value |-> value, file |-> file] :
     value \in {{}, {<<>>}, {<<"LF">>}},
     file \in {{}, {<<"relative", "password">>}, {<<"/run", "token">>}, {Empty},
               {<<"relative", "nowhere">>}}}

MCStarts ==
  {[Sound EXCEPT !.config.number[n] = 0] : n \in Numbers}
    \cup {[Sound EXCEPT !.config.text[t] = text] : t \in Texts, text \in {"empty", "blank"}}
    \cup {[Sound EXCEPT !.config.parses = parses] : parses \in BOOLEAN}
    \cup {[Sound EXCEPT !.config.exceptions = entries] : entries \in Addressed}
    \cup {[Sound EXCEPT !.config.secret.listen = s, !.config.secret.remote = t] :
            s \in Sources, t \in Sources}
    \cup {[Sound EXCEPT !.fs[<<"base", "password">>] = file] : file \in SecretFiles}
    \cup {[Sound EXCEPT !.fs[place] = file] :
            place \in {<<"base", "roots">>, <<"/etc", "keys">>, <<"keys.d", "a">>,
                       <<"base", "keys.d">>},
            file \in {Special("missing"), Special("directory"), Special("fifo"),
                      Regular(<<"bad">>)}}
    \cup {[Sound EXCEPT !.config.roots = paths] :
            paths \in {<<>>, <<<<"relative", "nowhere">>>>, <<Empty>>}}
    \cup {[Sound EXCEPT !.config.key_files = paths, !.config.key_directories = <<>>] :
            paths \in {<<>>, <<<<"keys.d", "b">>>>}}

(* What has up to three characters, and an address within what the command *)
(* parser may leave around it.                                              *)
MCRecipients ==
  LET around == BoundedSeq({"<", ">", "space"}, 1) IN
  BoundedSeq({"a", "b", "A", "@", "u"}, 3)
    \cup {before \o <<"a", "@", "b">> \o after : before \in around, after \in around}
=============================================================================
