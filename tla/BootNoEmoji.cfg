\* The environment that boots the bot, with EMOJI_ENABLED=false.
SPECIFICATION Spec
CONSTANT Found <- NoEmojiFound
INVARIANT EmojiCanBeDisabled
