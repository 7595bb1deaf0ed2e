---------------------------- MODULE MCAdminClient -----------------------------
(* Instance of AdminClient for TLC.  Each scenario gives the interesting cases *)
(* of some pages; the state space is their sum, not their product.             *)
EXTENDS AdminClient

Page(kind, bot) == [kind |-> kind, bot |-> bot]
ListOfBots == Page("bots", "any")
BotA       == Page("bot", "a")
BotB       == Page("bot", "b")
KeysA      == Page("credentials", "a")
KeysB      == Page("credentials", "b")
ChannelsA  == Page("webchat", "a")
ChannelsB  == Page("webchat", "b")

MCUrls == {ListOfBots, BotA, BotB, KeysA, KeysB, ChannelsA, ChannelsB}

OneToken == {CHOOSE tok \in Tokens : TRUE}
Sessions(urls) == [urls |-> urls, tokens |-> Tokens, tabs |-> TRUE, items |-> 0]
Work(urls, n)  == [urls |-> urls, tokens |-> OneToken, tabs |-> FALSE, items |-> n]

MCScenarios ==
  {Sessions({BotA, KeysA}),            \* late answers after the session changed
   Work({KeysA}, 2),                   \* two secrets
   Work({KeysA, KeysB}, 1),            \* a secret taken to another bot
   Work({ListOfBots, BotA}, 1),        \* changes that outlive their page
   Work({BotA, BotB}, 2),              \* an edit taken to another bot
   Work({ChannelsA, ChannelsB}, 1)}    \* a list taken to another bot
===============================================================================
