\* An environment that boots the bot, two of its variables tampered with, and
\* no file; or one of them, and a file that writes one setting.
SPECIFICATION Spec
CONSTANT Found <- MCFound
INVARIANTS NothingLeftRunning StartsOnlyComplete PanicsAreKnown
