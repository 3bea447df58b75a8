--------------------------- MODULE MCContainerLife ---------------------------
EXTENDS ContainerLife

Plain5 == [host |-> TRUE, port |-> Empty, tls |-> FALSE, targets |-> OutputTargets,
           level |-> "info", cron |-> "five fields", quotes |-> {}]

Secure == [Plain5 EXCEPT !.tls = TRUE, !.cron = Empty]

MCSettings == {
  Plain5,
  Secure,
  [Plain5 EXCEPT !.port = 8080, !.targets = {"fpkgi"}],
  [Plain5 EXCEPT !.host = FALSE, !.targets = {"hb-store"}, !.level = Junk],
  [Plain5 EXCEPT !.cron = Junk],
  [Secure EXCEPT !.quotes = {"ENABLE_TLS"}],
  [Plain5 EXCEPT !.port = Junk] }

MCAssets == <<"remote.md5", "homebrew.elf">>

MCReleases == <<{"remote.md5", "homebrew.elf"}, {"remote.md5", "homebrew.elf"}>>
=============================================================================
