----------------------------- MODULE MCPgStore ------------------------------
(***************************************************************************)
(* PgStore on a small instance.  The articles share no table with          *)
(* redirects, settings and users, so a behaviour works on the ones or on   *)
(* the others: mixing them would only multiply the states.                 *)
(***************************************************************************)
EXTENDS PgStore

VARIABLE focus   \* what the clients of this behaviour work on

MCInit == Init /\ focus \in {"articles", "others"}

Working == focus = "others" \/ servers = [s \in Servers |-> "up"]

Asked == IF focus = "articles"
         THEN {"CreateArticle", "UpdateArticle", "DeleteArticle", "RenameTag"}
         ELSE {"CreateRedirect", "DeleteRedirect", "SetSetting"}

\* In which order the servers start is nothing to the articles.
InTurn(s) == focus = "others" \/ s = CHOOSE r \in Servers : servers[r] # "up"

MCNext ==
    /\ UNCHANGED focus
    /\ \/ focus = "articles" /\ Working /\ ArticleCall
       \/ focus = "others" /\ OtherCall
       \/ Working /\ Fails /\ reply'.call \in Asked
       \/ \E s \in Servers : (BootLook(s) \/ BootCreate(s)) /\ InTurn(s)
       \/ focus = "others" /\ \E s \in Servers : ServerStops(s)

MCSpec == MCInit /\ [][MCNext]_<<vars, focus>>

MCContents == {[status |-> "published", visibility |-> "public", pinned |-> FALSE, body |-> "x"],
               [status |-> "draft", visibility |-> "public", pinned |-> TRUE, body |-> "x"]}

\* With a tag twice, as the form and the tools allow (parseTags).
MCTagLists == {<<"t", "u", "t">>}

MCHashOf == [s \in Servers |-> s]

MCKeyOrder == <<"name", "pass">>
=============================================================================
