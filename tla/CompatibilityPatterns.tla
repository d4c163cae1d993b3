------------------------ MODULE CompatibilityPatterns ------------------------
(***************************************************************************)
(* The tables of the upgrade tools below                                   *)
(* src/scripts/django52_python312_compatibility_check: what the scanner    *)
(* reports and what the auto-fixer rewrites.                               *)
(*                                                                         *)
(* A construct stands for the text one pattern matches; "(call)" marks a   *)
(* use whose name an import must bind.  What a replacement leaves behind is *)
(* a construct too, since later patterns and the scanner read it again.    *)
(***************************************************************************)
EXTENDS Sequences, SequencesExt

LOCAL Fix(find, replace) == [find |-> find, replace |-> replace]

(* FIX_PATTERNS of the fixer, in their order *)

DjangoFixes == <<
    Fix("import url", "import re_path"),
    Fix("import url, include", "import re_path, include"),
    Fix("import include, url", "import include, re_path"),
    Fix("import ugettext as _", "import gettext as _"),
    Fix("import ugettext_lazy as _", "import gettext_lazy as _"),
    Fix("import ugettext", "import gettext"),
    Fix("import ugettext_lazy", "import gettext_lazy"),
    Fix("import force_text", "import force_str"),
    Fix("import smart_text", "import smart_str"),
    Fix("force_text (call)", "force_str (call)"),
    Fix("smart_text (call)", "smart_str (call)"),
    Fix("import six", "# import six"),
    Fix("from six import text_type", "# from six import text_type"),
    Fix("from six import string_types", "# from six import string_types"),
    Fix("six.text_type", "str"),
    Fix("six.string_types", "str"),
    Fix("MemcachedCache", "PyMemcacheCache") >>

\* The second pattern asks for a word boundary only: it also rewrites a field of
\* serializers, before the pattern meant for it (the last of RestFixes) is tried.
FieldFixes == <<
    Fix("models.NullBooleanField()", "models.BooleanField(null)"),
    Fix("NullBooleanField()", "BooleanField(null)"),
    Fix("serializers.NullBooleanField()", "serializers.BooleanField(null)"),
    Fix("request.is_ajax()", "request.headers"),
    Fix("import render_to_response", "import render"),
    Fix("import LooseVersion", "import Version # from distutils"),
    Fix("import StrictVersion", "import Version # from distutils"),
    Fix("collections.Callable", "collections.abc.Callable"),
    Fix("collections.Set", "collections.abc.Set") >>

TimeFixes == <<
    Fix("import utc", "import UTC # django.utils.timezone.utc"),
    Fix("import UTC # django.utils.timezone.utc", "import UTC"),
    Fix("django.utils.timezone.utc", "datetime.timezone.utc"),
    Fix("user.is_authenticated()", "user.is_authenticated"),
    Fix("user.is_anonymous()", "user.is_anonymous"),
    Fix("import pytz", "import ZoneInfo"),
    Fix("from pytz import timezone", "import ZoneInfo"),
    Fix("from pytz import utc", "import ZoneInfo; UTC # pytz.utc"),
    Fix("pytz.timezone('..')", "ZoneInfo()"),
    Fix("pytz.utc", "ZoneInfo()"),
    Fix("import ZoneInfo; UTC # pytz.utc", "import ZoneInfo; UTC"),
    Fix("pytz.UTC", "ZoneInfo()") >>

RestFixes == <<
    Fix("from postgres import JSONField", "from models import JSONField"),
    Fix("postgres.JSONField", "models.JSONField"),
    Fix("USE_L10N", "# USE_L10N"),
    Fix("typing.Dict", "dict"),
    Fix("url(r'')", "re_path (call)"),
    Fix("find(all)", "find(find_all)"),
    Fix("ArrayAgg(ordering)", "ArrayAgg(order_by)"),
    Fix("is_valid(True)", "is_valid(raise_exception)"),
    Fix("serializers.NullBooleanField()", "serializers.BooleanField(allow_null)"),
    Fix("serializers.NullBooleanField", "serializers.BooleanField(allow_null)") >>

FixPatterns == DjangoFixes \o FieldFixes \o TimeFixes \o RestFixes

(* The tables of the scanner, by severity; it reads comments like code *)

RemovedDjango == [
    critical |-> {"import url", "import url, include", "import include, url", "url(r'')",
                  "MemcachedCache", "rest_framework_jwt"},
    high |-> {"models.NullBooleanField()", "import ugettext as _", "import ugettext_lazy as _",
              "import ugettext", "import ugettext_lazy", "ugettext (call)", "ugettext_lazy (call)",
              "request.is_ajax()", "import force_text", "import smart_text", "force_text (call)",
              "smart_text (call)"} ]

LaterDjango == [
    critical |-> {"MIDDLEWARE_CLASSES"},
    high |-> {"import render_to_response", "render_to_response (call)"},
    medium |-> {"from postgres import JSONField", "default_app_config", "USE_L10N", "# USE_L10N"} ]

RemovedPython == [
    critical |-> {"import distutils", "import LooseVersion", "import StrictVersion",
                  "import Version # from distutils", "import imp"},
    high |-> {"import six", "# import six", "from six import text_type",
              "# from six import text_type", "from six import string_types",
              "# from six import string_types", "six.text_type", "six.string_types",
              "six.moves", "asyncio.coroutine"} ]

LaterPython == [
    critical |-> {"collections.Callable", "collections.Set", "collections.Awaitable",
                  "import asyncore"},
    medium |-> {"asyncio.Task", "simplejson"},
    low |-> {"import Dict"} ]

DrfPatterns == [
    high |-> {"is_valid(True)", "serializers.NullBooleanField()", "serializers.NullBooleanField",
              "import NullBooleanField"},
    info |-> {"get_search_terms"} ]

Django5xPatterns == [
    critical |-> {"user.is_authenticated()", "user.is_anonymous()", "PickleSerializer"},
    high |-> {"django.utils.timezone.utc", "import utc", "import UTC # django.utils.timezone.utc",
              "Meta.index_together", "length_is"},
    info |-> {"DatabaseCache"} ]

Django52Patterns == [ medium |-> {"find(all)", "ArrayAgg(ordering)"}, info |-> {"filter(instance)"} ]

TimezonePatterns == [
    high |-> {"import pytz", "from pytz import timezone", "from pytz import utc",
              "import ZoneInfo; UTC # pytz.utc", "pytz.timezone('..')", "pytz.timezone(tz)",
              "pytz.utc", "pytz.UnknownTimeZoneError"} ]

DatetimePatterns == [ medium |-> {"datetime.now()", "datetime.utcnow()"} ]

PackagePatterns == [
    medium |-> {"assertFormError", "Field(template)", "reversion.register(follow)",
                "TaggableManager"},
    info |-> {"all().count()"} ]

Tables == <<RemovedDjango, LaterDjango, RemovedPython, LaterPython, DrfPatterns, Django5xPatterns,
            Django52Patterns, TimezonePatterns, DatetimePatterns, PackagePatterns>>

OfSeverity(s) == UNION {Tables[i][s] : i \in {t \in DOMAIN Tables : s \in DOMAIN Tables[t]}}
Critical == OfSeverity("critical")
Reported == UNION {OfSeverity(s) : s \in {"critical", "high", "medium", "low", "info"}}

(* The names that imports bind and uses need *)

Binders == [
    url |-> {"import url", "import url, include", "import include, url"},
    re_path |-> {"import re_path", "import re_path, include", "import include, re_path"},
    underscore |-> {"import ugettext as _", "import gettext as _"},
    ugettext |-> {"import ugettext"},
    force_text |-> {"import force_text"}, force_str |-> {"import force_str"},
    smart_text |-> {"import smart_text"}, smart_str |-> {"import smart_str"},
    six |-> {"import six"}, text_type |-> {"from six import text_type"},
    render_to_response |-> {"import render_to_response"},
    LooseVersion |-> {"import LooseVersion"},
    utc |-> {"import utc", "from pytz import utc"},
    pytz |-> {"import pytz"}, timezone |-> {"from pytz import timezone"},
    ZoneInfo |-> {"import ZoneInfo", "import ZoneInfo; UTC"},
    NullBooleanField |-> {"import NullBooleanField"}, BooleanField |-> {} ]

Users == [
    url |-> {"url(r'')", "url('')"}, re_path |-> {"re_path (call)"},
    underscore |-> {"_ (call)"}, ugettext |-> {"ugettext (call)"},
    force_text |-> {"force_text (call)"}, force_str |-> {"force_str (call)"},
    smart_text |-> {"smart_text (call)"}, smart_str |-> {"smart_str (call)"},
    six |-> {"six.text_type", "six.string_types", "six.moves"}, text_type |-> {"text_type (use)"},
    render_to_response |-> {"render_to_response (call)"},
    LooseVersion |-> {"LooseVersion (call)"}, utc |-> {"utc (use)"},
    pytz |-> {"pytz.timezone('..')", "pytz.timezone(tz)", "pytz.utc", "pytz.UTC",
              "pytz.UnknownTimeZoneError"},
    timezone |-> {"timezone (call)"}, ZoneInfo |-> {"ZoneInfo()"},
    NullBooleanField |-> {"NullBooleanField()"}, BooleanField |-> {"BooleanField(null)"} ]

Constructs ==
    UNION ({{p.find, p.replace} : p \in {FixPatterns[i] : i \in DOMAIN FixPatterns}}
           \cup {Reported}
           \cup {Binders[n] \cup Users[n] : n \in DOMAIN Users})

\* compiled.sub(replacement, modified_content), for one construct of the content
Substitute(construct, pattern) ==
    IF pattern.find = construct THEN pattern.replace ELSE construct

\* One pattern after the other, each on what the ones before it have left.
Replacement == [c \in Constructs |-> FoldLeft(Substitute, c, FixPatterns)]

Bound(content) ==
    \A n \in DOMAIN Users : content \cap Users[n] # {} => content \cap Binders[n] # {}

\* What the fixer leaves to be done by hand, as its documentation says ...
ByHand == {"render_to_response (call)", "six.moves", "pytz.UnknownTimeZoneError"}

\* ... and the other uses no pattern follows when the import is rewritten.
NotFollowed == {"url('')", "ugettext (call)", "text_type (use)", "LooseVersion (call)",
                "utc (use)", "pytz.timezone(tz)", "timezone (call)", "NullBooleanField()"}
=============================================================================
