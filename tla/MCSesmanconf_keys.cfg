\* The fr and en tables disagree on the key of not_display_message.
CONSTANT OtherKeys <- MCOtherKeys
SPECIFICATION Spec
INVARIANT KeyTranslatedInEachLanguage
